---- MODULE Spec2Model ----
(***************************************************************************)
(* Value model, subtyping and evaluation of glisp.                         *)
(*                                                                         *)
(*  - packages/lang/src/val/val.ts : the class-based value model (Unit,    *)
(*    All, Never, Prim, PrimType, Enum, EnumType, TypeVar, Fn, FnType,     *)
(*    Vec, Dict, Struct, StructType, UnionType) with isEqualTo,            *)
(*    isSubtypeOf, isInstance and withDefault.                             *)
(*  - src/experiments/08_syntaxdev/glisp.ts : the plain-object value model *)
(*    with compareType / isSubtypeOf and uniteType, and the evaluator      *)
(*    evalExp with inspectExpSymbol, castExpParam and castType.            *)
(*  - unnamed/part_000 : the interpreter over a graph of nodes with parent *)
(*    links (resolveSymbol, inferType, assignExp, evalExp with its memo),  *)
(*    and the if of src/experiments/07_new-syntax/glisp.ts.                *)
(*                                                                         *)
(* Spec applies one operation of val.ts or of 08_syntaxdev to two drawn    *)
(* inputs; SpecI runs a sequence of evaluations on one interpreter.        *)
(*                                                                         *)
(* A value is a record whose field "type" (val.ts) or "kind" (glisp.ts) is *)
(* the variant tag.  Object identity, where the code compares with ===, is *)
(* the field "id".  JavaScript's undefined is the record Undef.            *)
(***************************************************************************)
EXTENDS Integers, Sequences, FiniteSets, TLC

VARIABLES fam, a, b, op, out, res, impl, ret, heap, ops, ev, origExp

vars == <<fam, a, b, op, out, res, impl, ret, heap, ops, ev, origExp>>

\* The variables of the interpreter
ivars == <<impl, ret, heap, ops, ev>>

\* Longest item list of a Vec and longest parameter list of a FnType.
MaxVecLen == 2
\* Largest number of members of a UnionType.
MaxUnionLen == 2

Undef == [type |-> "undefined"]

B(x) == IF x THEN "true" ELSE "false"

SeqsUpTo(S, n) == UNION {[1..k -> S] : k \in 0..n}

\* const x = v; followed by the statements K, which read x
Let(v, K(_)) == K(v)

(***************************************************************************)
(* val.ts: constructors                                                    *)
(***************************************************************************)
Unit == [type |-> "Unit"]

\* id 0 is All.instance; All.withDefault returns a new object (id > 0).
All(id) == [type |-> "All", id |-> id]

AllInstance == All(0)

Never == [type |-> "Never"]

PrimType(name) == [type |-> "PrimType", name |-> name]

Prim(ty, value) == [type |-> "Prim", superType |-> ty, value |-> value]

NumType == PrimType("Num")

StrType == PrimType("Str")

Num(value) == Prim(NumType, value)

Str(value) == Prim(StrType, value)

EnumType(name, labels) == [type |-> "EnumType", name |-> name, labels |-> labels]

Enum(ty, name) == [type |-> "Enum", name |-> name, superType |-> ty]

TypeVar(name, id) == [type |-> "TypeVar", name |-> name, id |-> id]

FnType(param, optionalPos, rest, o) ==
    [type |-> "FnType", param |-> param, optionalPos |-> optionalPos,
     rest |-> rest, out |-> o]

Fn(ty, id) == [type |-> "Fn", superType |-> ty, id |-> id]

Vec(items, optionalPos, rest) ==
    [type |-> "Vec", items |-> items, optionalPos |-> optionalPos, rest |-> rest]

Dict(items, optionalKeys, rest) ==
    [type |-> "Dict", items |-> items, optionalKeys |-> optionalKeys, rest |-> rest]

StructType(name, param) == [type |-> "StructType", name |-> name, param |-> param]

Struct(ctor, items) == [type |-> "Struct", superType |-> ctor, items |-> items]

UnionType(types) == [type |-> "UnionType", types |-> types]

\* The constructors of Vec and FnType throw unless 0 <= optionalPos <= length.
ValidOptionalPos(len, optionalPos) == optionalPos >= 0 /\ optionalPos <= len

\* The constructor of UnionType throws with fewer than two members.
ValidUnion(types) == Len(types) >= 2

SuperType(v) ==
    CASE v.type \in {"Prim", "Enum", "Fn", "Struct"} -> v.superType
      [] v.type = "All" -> v
      [] OTHER -> AllInstance

(***************************************************************************)
(* val.ts: isEqualTo                                                       *)
(***************************************************************************)
RECURSIVE IsEqualTo(_, _)

IsEqualArray(xs, ys) ==
    Len(xs) = Len(ys) /\ \A i \in 1..Len(xs) : IsEqualTo(xs[i], ys[i])

IsEqualDict(xs, ys) ==
    DOMAIN xs = DOMAIN ys /\ \A k \in DOMAIN xs : IsEqualTo(xs[k], ys[k])

IsEqualSet(xs, ys) == xs = ys

NullishEqual(x, y) ==
    IF x = Undef \/ y = Undef THEN x = Undef /\ y = Undef ELSE IsEqualTo(x, y)

\* differenceWith(xs, ys, isEqual): the members of xs equal to no member of ys.
DifferenceWith(xs, ys) ==
    {i \in 1..Len(xs) : ~\E j \in 1..Len(ys) : IsEqualTo(xs[i], ys[j])}

IsEqualTo(x, y) ==
    \/ x = y
    \/ /\ x.type = y.type
       /\ CASE x.type = "Prim" ->
                 x.value = y.value /\ IsEqualTo(x.superType, y.superType)
            [] x.type = "PrimType" -> x.name = y.name
            [] x.type = "Enum" ->
                 x.name = y.name /\ IsEqualTo(x.superType, y.superType)
            [] x.type = "EnumType" -> x.name = y.name
            [] x.type = "FnType" ->
                 /\ IsEqualArray(x.param, y.param)
                 /\ x.optionalPos = y.optionalPos
                 /\ NullishEqual(x.rest, y.rest)
                 /\ IsEqualTo(x.out, y.out)
            [] x.type = "Vec" ->
                 /\ IsEqualArray(x.items, y.items)
                 /\ x.optionalPos = y.optionalPos
                 /\ NullishEqual(x.rest, y.rest)
            [] x.type = "Dict" ->
                 /\ IsEqualDict(x.items, y.items)
                 /\ IsEqualSet(x.optionalKeys, y.optionalKeys)
                 /\ NullishEqual(x.rest, y.rest)
            [] x.type = "Struct" ->
                 /\ IsEqualTo(x.superType, y.superType)
                 /\ IsEqualArray(x.items, y.items)
            [] x.type = "StructType" -> x.name = y.name
            [] x.type = "UnionType" -> DifferenceWith(x.types, y.types) = {}
            [] OTHER -> FALSE

(***************************************************************************)
(* val.ts: isSubtypeOf                                                     *)
(***************************************************************************)
RECURSIVE IsSubtypeOf(_, _)
RECURSIVE VecItemsLoop(_, _, _, _, _)
RECURSIVE VecRestLoop(_, _, _)
RECURSIVE DictKeysLoop(_, _, _)

\* isSubtype(a, b) is a.isSubtypeOf(b).
IsSubtype(x, y) == IsSubtypeOf(x, y)

\* s.isSubtypeOf taken off its object and called as a callback of some():
\* the arrow-function fields keep their this, All's isSubtypeOf is the
\* prototype method isEqualTo and runs with this undefined.
IsSubtypeOfCallback(s, ty) == IF s.type = "All" THEN FALSE ELSE IsSubtypeOf(s, ty)

\* Mutant: every() where the code has some().
UnionIsSupertypeOf_Every(u, s) ==
    \A i \in 1..Len(u.types) : IsSubtypeOfCallback(s, u.types[i])

UnionIsSupertypeOf(u, s) ==
    \E i \in 1..Len(u.types) : IsSubtypeOfCallback(s, u.types[i])

BaseIsSubtypeOf(this, ty) ==
    IF ty.type = "UnionType" THEN UnionIsSupertypeOf(ty, this)
    ELSE IsEqualTo(this, ty) \/ IsSubtypeOf(SuperType(this), ty)

\* All: isSubtypeOf = this.isEqualTo, the identity comparison of BaseValue.
AllIsSubtypeOf(this, ty) == this = ty

NeverIsSubtypeOf(this, ty) == TRUE

\* The generator Vec.asIterator.  A generator state is the number of items
\* already yielded and whether the body is in the items loop, suspended at
\* "yield this.rest", or has returned.
GenStart == [st |-> "items", pos |-> 0]

GenNext(this, g, sent) ==
    CASE g.st = "done" -> [value |-> Undef, g |-> g]
      [] g.st = "items" ->
           IF g.pos < Len(this.items)
           THEN [value |-> this.items[g.pos + 1],
                 g |-> [st |-> "items", pos |-> g.pos + 1]]
           ELSE IF this.rest = Undef
                THEN [value |-> Undef, g |-> [st |-> "done", pos |-> g.pos]]
                ELSE [value |-> this.rest, g |-> [st |-> "rest", pos |-> g.pos]]
      [] g.st = "rest" ->
           IF sent
           THEN [value |-> Undef, g |-> [st |-> "done", pos |-> g.pos]]
           ELSE [value |-> this.rest, g |-> g]

\* for (const vi of v.items) {...}: "false" is return false, otherwise the
\* loop ended or broke and the generator state is handed on.
VecItemsLoop(this, v, j, i, g) ==
    IF j > Len(v.items) THEN [r |-> "end", g |-> g]
    ELSE LET nx == GenNext(this, g, FALSE)
             ti == nx.value
         IN  IF ti = Undef /\ v.optionalPos <= i THEN [r |-> "break", g |-> nx.g]
             ELSE IF ti = Undef \/ ~IsSubtype(ti, v.items[j])
                  THEN [r |-> "false", g |-> nx.g]
                  ELSE VecItemsLoop(this, v, j + 1, i, nx.g)

\* for (let ti; (ti = tIter.next(true).value); ) {...}
VecRestLoop(this, v, g) ==
    LET nx == GenNext(this, g, TRUE)
    IN  IF nx.value = Undef THEN TRUE
        ELSE IF ~IsSubtype(nx.value, v.rest) THEN FALSE
             ELSE VecRestLoop(this, v, nx.g)

\* Mutant: the boundary test written with <= .
VecIsSubtypeOf_StrictBoundary(this, v) ==
    IF IsSubtypeOf(SuperType(this), v) THEN TRUE
    ELSE IF v.type = "UnionType" THEN UnionIsSupertypeOf(v, this)
    ELSE IF v.type # "Vec" THEN FALSE
    ELSE IF this.optionalPos <= v.optionalPos THEN FALSE
    ELSE LET lp == VecItemsLoop(this, v, 1, 0, GenStart)
         IN  IF lp.r = "false" THEN FALSE
             ELSE IF v.rest # Undef THEN VecRestLoop(this, v, lp.g)
                  ELSE TRUE

\* Mutant: the boundary test left out.
VecIsSubtypeOf_NoBoundary(this, v) ==
    IF IsSubtypeOf(SuperType(this), v) THEN TRUE
    ELSE IF v.type = "UnionType" THEN UnionIsSupertypeOf(v, this)
    ELSE IF v.type # "Vec" THEN FALSE
    ELSE LET lp == VecItemsLoop(this, v, 1, 0, GenStart)
         IN  IF lp.r = "false" THEN FALSE
             ELSE IF v.rest # Undef THEN VecRestLoop(this, v, lp.g)
                  ELSE TRUE

VecIsSubtypeOf(this, v) ==
    IF IsSubtypeOf(SuperType(this), v) THEN TRUE
    ELSE IF v.type = "UnionType" THEN UnionIsSupertypeOf(v, this)
    ELSE IF v.type # "Vec" THEN FALSE
    ELSE IF this.optionalPos < v.optionalPos THEN FALSE
    ELSE LET lp == VecItemsLoop(this, v, 1, 0, GenStart)
         IN  IF lp.r = "false" THEN FALSE
             ELSE IF v.rest # Undef THEN VecRestLoop(this, v, lp.g)
                  ELSE TRUE

\* Mutant: optionalKeys not consulted.
IsRequredKey_IgnoreOptional(this, key) == key \in DOMAIN this.items

IsRequredKey(this, key) == key \in DOMAIN this.items /\ key \notin this.optionalKeys

\* for (const k of tKeys) {...}: TRUE unless the loop returns false.
DictKeysLoop(this, v, ks) ==
    IF ks = {} THEN TRUE
    ELSE LET k == CHOOSE x \in ks : TRUE
             vi == v.items[k]
             ok == IF IsRequredKey(v, k)
                   THEN IF IsRequredKey(this, k) THEN IsSubtype(this.items[k], vi)
                        ELSE FALSE
                   ELSE LET sv == IF k \in DOMAIN this.items THEN this.items[k]
                                  ELSE this.rest
                        IN  sv = Undef \/ IsSubtype(sv, vi)
         IN  ok /\ DictKeysLoop(this, v, ks \ {k})

DictIsSubtypeOf(this, v) ==
    IF IsSubtypeOf(SuperType(this), v) THEN TRUE
    ELSE IF v.type = "UnionType" THEN UnionIsSupertypeOf(v, this)
    ELSE IF v.type # "Dict" THEN FALSE
    ELSE LET tKeys == DOMAIN v.items
             extraKeys == DOMAIN this.items \ tKeys
         IN  /\ DictKeysLoop(this, v, tKeys)
             /\ v.rest # Undef =>
                  /\ \A k \in extraKeys : IsSubtype(this.items[k], v.rest)
                  /\ this.rest # Undef => IsSubtype(this.rest, v.rest)

\* Mutant: parameters compared covariantly.
FnTypeIsSubtypeOf_Covariant(this, v) ==
    IF IsSubtypeOf(SuperType(this), v) THEN TRUE
    ELSE IF v.type = "UnionType" THEN UnionIsSupertypeOf(v, this)
    ELSE IF v.type # "FnType" THEN FALSE
    ELSE LET tParam == Vec(this.param, this.optionalPos, this.rest)
             eParam == Vec(v.param, v.optionalPos, v.rest)
         IN  IsSubtype(tParam, eParam) /\ IsSubtype(this.out, v.out)

\* Mutant: parameters not compared.
FnTypeIsSubtypeOf_OutOnly(this, v) ==
    IF IsSubtypeOf(SuperType(this), v) THEN TRUE
    ELSE IF v.type = "UnionType" THEN UnionIsSupertypeOf(v, this)
    ELSE IF v.type # "FnType" THEN FALSE
    ELSE IsSubtype(this.out, v.out)

FnTypeIsSubtypeOf(this, v) ==
    IF IsSubtypeOf(SuperType(this), v) THEN TRUE
    ELSE IF v.type = "UnionType" THEN UnionIsSupertypeOf(v, this)
    ELSE IF v.type # "FnType" THEN FALSE
    ELSE LET tParam == Vec(this.param, this.optionalPos, this.rest)
             eParam == Vec(v.param, v.optionalPos, v.rest)
         IN  IsSubtype(eParam, tParam) /\ IsSubtype(this.out, v.out)

UnionIsSubtypeOf(this, e) ==
    IF IsSubtypeOf(SuperType(this), e) THEN TRUE
    ELSE LET types == IF e.type = "UnionType" THEN e.types ELSE <<e>>
         IN  \A i \in 1..Len(this.types) :
                 \E j \in 1..Len(types) :
                     IsSubtypeOfCallback(this.types[i], types[j])

IsSubtypeOf(x, y) ==
    CASE x.type = "All" -> AllIsSubtypeOf(x, y)
      [] x.type = "Never" -> NeverIsSubtypeOf(x, y)
      [] x.type = "FnType" -> FnTypeIsSubtypeOf(x, y)
      [] x.type = "Vec" -> VecIsSubtypeOf(x, y)
      [] x.type = "Dict" -> DictIsSubtypeOf(x, y)
      [] x.type = "UnionType" -> UnionIsSubtypeOf(x, y)
      [] OTHER -> BaseIsSubtypeOf(x, y)

(***************************************************************************)
(* val.ts: isType, isInstance, defaultValue and withDefault                *)
(***************************************************************************)
\* const or = (...xs) => xs.reduce(x => x): the first of its arguments
or(xs) == xs[1]

\* The function isType: the table of val.ts, looked up by v.type, and false
\* for a variant that the table does not list.  The values of a Dict come
\* in the order of its keys.
RECURSIVE isType(_)
isType(v) ==
    CASE v.type \in {"TypeVar", "Never", "PrimType", "EnumType", "FnType",
                     "StructType", "UnionType"} -> TRUE
      [] v.type = "Fn" -> FALSE
      [] v.type = "Vec" ->
            or([i \in 1..Len(v.items) |-> isType(v.items[i])]
               \o <<v.optionalPos < Len(v.items), v.rest # Undef>>)
      [] v.type = "Dict" ->
            LET ks == SelectSeq(<<"a", "b">>, LAMBDA k : k \in DOMAIN v.items) IN
            or([i \in 1..Len(ks) |-> isType(v.items[ks[i]])]
               \o <<v.optionalKeys # {}, v.rest # Undef>>)
      [] OTHER -> FALSE

\* The getter this.isType
IsType(this) ==
    CASE this.type = "Vec" ->
            \/ this.rest # Undef
            \/ this.optionalPos < Len(this.items)
            \/ \E i \in 1..Len(this.items) : isType(this.items[i])
      [] this.type = "Dict" ->
            \/ this.rest # Undef
            \/ this.optionalKeys # {}
            \/ \E k \in DOMAIN this.items : isType(this.items[k])
      [] OTHER -> isType(this)

IsInstance(this, value) ==
    CASE this.type = "PrimType" -> value.type = "Prim" /\ IsSubtypeOf(value, this)
      [] this.type = "EnumType" -> value.type = "Enum" /\ IsSubtypeOf(value, this)
      [] OTHER -> ~IsType(value) /\ IsSubtypeOf(value, this)

\* this.defaultValue of a value no withDefault was applied to.  NumType and
\* StrType are made with the literals 0 and ''; the Fn that a FnType
\* creates is a new function.
RECURSIVE DefaultValue(_)
DefaultValue(this) ==
    CASE this.type \in {"Unit", "Never", "Prim", "Enum", "Fn", "Struct"} -> this
      [] this.type \in {"All", "TypeVar"} -> Unit
      [] this.type = "PrimType" ->
            Prim(this, IF this.name = "Num" THEN "0" ELSE "")
      [] this.type = "EnumType" -> Enum(this, this.labels[1])
      [] this.type = "FnType" -> Fn(this, -1)
      [] this.type = "Vec" ->
            Vec([i \in 1..this.optionalPos |-> DefaultValue(this.items[i])],
                this.optionalPos, Undef)
      [] this.type = "Dict" ->
            Dict([k \in {j \in DOMAIN this.items : IsRequredKey(this, j)} |->
                     DefaultValue(this.items[k])], {}, Undef)
      [] this.type = "StructType" ->
            Struct(this, [i \in 1..Len(this.param) |-> DefaultValue(this.param[i])])
      [] this.type = "UnionType" -> DefaultValue(this.types[1])

\* The object that withDefault returns and its defaultValue
Returned(value, defaultValue) ==
    [thrown |-> FALSE, value |-> value, defaultValue |-> defaultValue]

InvalidDefaultValue == [thrown |-> TRUE]

WithDefault(this, defaultValue) ==
    \* new All(): an object that is none of the drawn ones (ids 0 and 1)
    CASE this.type = "All" -> Returned(All(2), defaultValue)
      [] this.type \in {"PrimType", "EnumType", "FnType", "Vec", "StructType",
                        "UnionType"} ->
            IF ~IsInstance(this, defaultValue) THEN InvalidDefaultValue
            ELSE Returned(this, defaultValue)
      [] this.type = "Dict" ->
            IF ~IsType(this) THEN Returned(this, DefaultValue(this))
            ELSE IF ~IsInstance(this, defaultValue) THEN InvalidDefaultValue
            ELSE Returned(this, defaultValue)
      [] OTHER -> Returned(this, DefaultValue(this))

(***************************************************************************)
(* val.ts: Vec.fn.  The number of the index argument is given in halves,   *)
(* so that a non-integer index can be drawn: the index is half / 2.        *)
(* this.items[i] is undefined for every i that is no position of items.    *)
(***************************************************************************)
IndexOutOfRange == [thrown |-> TRUE]

VecFn(this, half) ==
    IF half % 2 = 0 /\ half \div 2 >= 0 /\ half \div 2 < Len(this.items)
    THEN [thrown |-> FALSE, value |-> this.items[half \div 2 + 1], logs |-> <<>>]
    ELSE IndexOutOfRange

\* The indexes drawn: from -1 to one past the longest vector, in halves
IndexHalves == (0 - 2)..(2 * MaxVecLen + 2)

(***************************************************************************)
(* 08_syntaxdev/glisp.ts: values                                           *)
(*                                                                         *)
(* A JavaScript primitive (null, boolean, number, string) is a record of   *)
(* kind "literal" with its typeof, an array is a record of kind "vector".  *)
(* A valueType is identified by its id; predicate and cast of the value    *)
(* types of the source are functions of the id.                            *)
(***************************************************************************)
Literal(t, value) == [kind |-> "literal", t |-> t, value |-> value]

Array(items) == [kind |-> "vector", items |-> items]

ValueAny == [kind |-> "any"]

ValueUnit == [kind |-> "unit"]

createInfVector(items) == [kind |-> "infVector", items |-> items]

createHashMap(value) == [kind |-> "hashMap", value |-> value]

createValueType(id) == [kind |-> "valueType", id |-> id]

ValueSingleton(id) == [kind |-> "singleton", id |-> id]

ValueUnion(items, cast) == [kind |-> "union", items |-> items, cast |-> cast]

ValueFnType(params, o) == [kind |-> "fnType", params |-> params, out |-> o]

ValueFn(id, params, o, variadic) ==
    [kind |-> "fn", id |-> id, params |-> params, out |-> o, variadic |-> variadic]

TypeNumber == createValueType("number")

TypeString == createValueType("string")

TypeIO == createValueType("IO")

TypeFnType == createValueType("fnType")

TypeHashMap == createValueType("hashMap")

\* What a thrown Error leaves in place of a value.
Thrown == [kind |-> "thrown"]

isObject(x) == x.kind # "literal"

isArray(x) == x.kind = "vector"

isKindOf(x, kind) == isObject(x) /\ ~isArray(x) /\ x.kind = kind

\* b.predicate(a) of the value types created in the source.
predicate(ty, x) ==
    CASE ty.id = "number" -> x.kind = "literal" /\ x.t = "number"
      [] ty.id = "string" -> x.kind = "literal" /\ x.t = "string"
      [] ty.id = "fnType" -> isKindOf(x, "fnType")
      [] ty.id = "hashMap" -> isKindOf(x, "hashMap")
      [] OTHER -> FALSE

getParamType(fn) ==
    IF fn.variadic THEN createInfVector(fn.params) ELSE Array(fn.params)

\* _.times(n, _.constant(x))
times(n, x) == [i \in 1..n |-> x]

slice(xs, from, to) == [i \in 1..(to - from) |-> xs[from + i]]

(***************************************************************************)
(* 08_syntaxdev/glisp.ts: compareType.  The result is "true", "false", or  *)
(* "throw" when the call ends in a thrown Error.                           *)
(***************************************************************************)
RECURSIVE compareType(_, _, _)
RECURSIVE everyByPairFrom(_, _, _, _)
RECURSIVE unionSome(_, _, _, _)
RECURSIVE unionEvery(_, _, _, _)

\* x && y, where x and y may throw
AndThen(x, y) == IF x = "true" THEN y ELSE x

everyByPairFrom(xs, ys, onlyInstance, i) ==
    IF i > Len(xs) \/ i > Len(ys) THEN "true"
    ELSE AndThen(compareType(xs[i], ys[i], onlyInstance),
                 everyByPairFrom(xs, ys, onlyInstance, i + 1))

everyByPair(xs, ys, onlyInstance) == everyByPairFrom(xs, ys, onlyInstance, 1)

vector(x, y, onlyInstance) ==
    IF ~isArray(x) THEN "false"
    ELSE IF Len(x.items) < Len(y.items) THEN "false"
    ELSE everyByPair(x.items, y.items, onlyInstance)

infVector(x, y, onlyInstance) ==
    IF isKindOf(x, "infVector")
    THEN LET alen == Len(x.items)
             blen == Len(y.items)
         IN  IF alen < blen THEN "false"
             ELSE vector(Array(x.items),
                         Array(y.items \o times(alen - blen, y.items[blen])),
                         onlyInstance)
    ELSE IF isArray(x)
    THEN LET minLength == Len(y.items) - 1
         IN  IF Len(x.items) < minLength THEN "false"
             ELSE vector(x,
                         Array(slice(y.items, 0, minLength)
                               \o times(Len(x.items) - minLength,
                                        y.items[Len(y.items)])),
                         onlyInstance)
    ELSE "false"

\* bTypes.some(bt => compare(at, bt))
unionSome(at, bTypes, onlyInstance, j) ==
    IF j > Len(bTypes) THEN "false"
    ELSE LET r == compareType(at, bTypes[j], onlyInstance)
         IN  IF r = "false" THEN unionSome(at, bTypes, onlyInstance, j + 1) ELSE r

\* aTypes.every(at => ...)
unionEvery(aTypes, bTypes, onlyInstance, i) ==
    IF i > Len(aTypes) THEN "true"
    ELSE AndThen(unionSome(aTypes[i], bTypes, onlyInstance, 1),
                 unionEvery(aTypes, bTypes, onlyInstance, i + 1))

union(x, y, onlyInstance) ==
    LET aTypes == IF isKindOf(x, "union") THEN x.items ELSE <<x>>
    IN  unionEvery(aTypes, y.items, onlyInstance, 1)

valueType(x, y, onlyInstance) ==
    IF onlyInstance THEN B(predicate(y, x))
    ELSE B(predicate(y, x) \/ (isKindOf(x, "valueType") /\ x.id = y.id))

normalizeToFn(x) ==
    IF isKindOf(x, "fn") THEN [params |-> getParamType(x), out |-> x.out]
    ELSE [params |-> Array(<<>>), out |-> x]

fnType(x, y) ==
    LET _a == normalizeToFn(x)
    IN  AndThen(compareType(_a.params, y.params, FALSE),
                compareType(_a.out, y.out, FALSE))

compareType(x, y, onlyInstance) ==
    IF ~isObject(y) THEN B(x = y)
    ELSE IF isArray(y) THEN vector(x, y, onlyInstance)
    ELSE CASE y.kind = "any" -> "true"
           [] y.kind = "unit" -> B(isKindOf(x, "unit"))
           [] y.kind = "valueType" -> valueType(x, y, onlyInstance)
           [] y.kind = "infVector" -> infVector(x, y, onlyInstance)
           [] y.kind = "union" -> union(x, y, onlyInstance)
           [] y.kind = "fnType" -> fnType(x, y)
           [] y.kind \in {"fn", "singleton"} -> B(x = y)
           [] OTHER -> "throw"

isSubtypeOf(x, y) == compareType(x, y, FALSE)

isInstanceOf(x, y) == compareType(x, y, TRUE)

(***************************************************************************)
(* 08_syntaxdev/glisp.ts: uniteType.  An entry of items set to undefined   *)
(* is Undef; the result is Thrown when a comparison throws.                *)
(***************************************************************************)
RECURSIVE flatMapUnion(_)
RECURSIVE uniteInner(_, _, _)
RECURSIVE uniteOuter(_, _)

\* types.flatMap(t => isKindOf(t, 'union') ? t.items : [t])
flatMapUnion(types) ==
    IF types = <<>> THEN <<>>
    ELSE (IF isKindOf(Head(types), "union") THEN Head(types).items
          ELSE <<Head(types)>>) \o flatMapUnion(Tail(types))

\* for (let b = ...; b < items.length; b++) with aItem = items[ia]
uniteInner(items, ia, ib) ==
    IF ib > Len(items) THEN items
    ELSE IF items[ib] = Undef THEN uniteInner(items, ia, ib + 1)
    ELSE LET ba == isSubtypeOf(items[ib], items[ia])
         IN  IF ba = "throw" THEN Thrown
             ELSE IF ba = "true"
             THEN uniteInner([items EXCEPT ![ib] = Undef], ia, ib + 1)
             ELSE LET ab == isSubtypeOf(items[ia], items[ib])
                  IN  IF ab = "throw" THEN Thrown
                      ELSE IF ab = "true" THEN [items EXCEPT ![ia] = Undef]
                      ELSE uniteInner(items, ia, ib + 1)

\* for (let a = ...; a < items.length - 1; a++)
uniteOuter(items, ia) ==
    IF ia > Len(items) - 1 THEN items
    ELSE IF items[ia] = Undef THEN uniteOuter(items, ia + 1)
    ELSE LET next == uniteInner(items, ia, ia + 1)
         IN  IF next = Thrown THEN Thrown ELSE uniteOuter(next, ia + 1)

uniteType(types, cast) ==
    LET items == flatMapUnion(types)
        folded == IF Len(items) >= 2 THEN uniteOuter(items, 1) ELSE items
    IN  IF folded = Thrown THEN Thrown
        ELSE LET uniqItems == SelectSeq(folded, LAMBDA i : i # Undef)
             IN  IF Len(uniqItems) > 0 THEN ValueUnion(uniqItems, cast)
                 ELSE Undef

(***************************************************************************)
(* The values the operations are applied to                                *)
(***************************************************************************)
BoolType == EnumType("Bool", <<"true", "false">>)

StructTypeP == StructType("P", <<NumType>>)

FnTypeNumNum == FnType(<<NumType>>, 1, Undef, NumType)

VecOfNum == Vec(<<NumType>>, 1, Undef)

UnionNumStr == UnionType(<<NumType, StrType>>)

Atoms ==
    {Unit, AllInstance, All(1), Never, NumType, StrType, Num("0"), Num("1"),
     Str("a"), BoolType, Enum(BoolType, "true"), Enum(BoolType, "false"),
     TypeVar("T", 0), TypeVar("T", 1), StructTypeP,
     Struct(StructTypeP, <<Num("0")>>), Fn(FnTypeNumNum, 0)}

Composites ==
    {VecOfNum, Vec(<<Num("0")>>, 1, Undef), Vec(<<UnionNumStr>>, 1, Undef),
     Vec(<<AllInstance>>, 0, AllInstance), Vec(<<All(1)>>, 1, Undef),
     Vec(<<>>, 0, UnionNumStr),
     Vec(<<VecOfNum, Never>>, 1, VecOfNum),
     Dict([k \in {"a"} |-> NumType], {}, Undef),
     Dict([k \in {"a", "b"} |-> IF k = "a" THEN VecOfNum ELSE UnionNumStr],
          {"b"}, FnTypeNumNum),
     FnTypeNumNum, FnType(<<Never>>, 1, Undef, NumType),
     FnType(<<VecOfNum>>, 0, UnionNumStr, UnionNumStr),
     Struct(StructTypeP, <<VecOfNum>>)}

\* Members of a union are UnitableType: any Value but All and Never.
UnionBase ==
    {NumType, StrType, Num("0"), BoolType, Enum(BoolType, "true"), VecOfNum}

Unions ==
    {UnionType(ts) : ts \in {s \in SeqsUpTo(UnionBase, MaxUnionLen) : ValidUnion(s)}}

Mixed == Atoms \cup Composites \cup Unions

VecItemBase == {NumType, Num("0"), StrType, Never}

VecRestBase == {Undef, NumType, StrType}

Vecs ==
    UNION {{Vec(items, p, r) : p \in {q \in 0..MaxVecLen :
                                         ValidOptionalPos(Len(items), q)},
                               r \in VecRestBase} :
           items \in SeqsUpTo(VecItemBase, MaxVecLen)}

Keys == {"a", "b"}

DictValBase == {NumType, Num("0"), StrType}

DictRestBase == {Undef, NumType, StrType}

Dicts ==
    UNION {UNION {{Dict(items, o, r) : o \in SUBSET D, r \in DictRestBase} :
                  items \in [D -> DictValBase]} :
           D \in SUBSET Keys}

FnParamBase == {NumType, Never, Num("0")}

FnTypes ==
    UNION {{FnType(param, p, r, o) : p \in {q \in 0..MaxVecLen :
                                               ValidOptionalPos(Len(param), q)},
                                     r \in {Undef, NumType},
                                     o \in {NumType, Num("0")}} :
           param \in SeqsUpTo(FnParamBase, MaxVecLen)}

\* Values of 08_syntaxdev/glisp.ts.
G8ItemBase == {Literal("number", "0"), Literal("string", "a"), TypeNumber}

G8Vectors == {Array(items) : items \in SeqsUpTo(G8ItemBase, MaxVecLen)}

TypeBoolean ==
    uniteType(<<Literal("boolean", "false"), Literal("boolean", "true")>>, "boolean")

G8Values ==
    {Literal("null", "null"), Literal("boolean", "true"), Literal("boolean", "false"),
     Literal("number", "0"), Literal("number", "1"), Literal("string", "a"),
     ValueAny, ValueUnit, TypeNumber, TypeString, TypeFnType, TypeHashMap, TypeIO,
     TypeBoolean, ValueSingleton("LT"), ValueSingleton("EQ"),
     createInfVector(<<TypeNumber>>),
     createInfVector(<<TypeString, TypeNumber>>),
     ValueFnType(Array(<<TypeNumber>>), TypeNumber),
     ValueFnType(Array(<<>>), ValueAny),
     ValueFnType(createInfVector(<<TypeNumber>>), TypeNumber),
     ValueFn("not", <<TypeBoolean>>, TypeBoolean, FALSE),
     ValueFn("+", <<TypeNumber>>, TypeNumber, TRUE),
     createHashMap([k \in {} |-> ValueUnit]),
     createHashMap([k \in {"a"} |-> Literal("number", "0")]),
     ValueUnion(<<TypeNumber, TypeString>>, "none")}
    \cup G8Vectors

(***************************************************************************)
(* The evaluator of 08_syntaxdev/glisp.ts                                  *)
(*                                                                         *)
(* An Exp is a record tagged by "ast".  The parent links of the code only  *)
(* serve to find the scopes above a node, so a node is evaluated together  *)
(* with its scope chain: the sequence of the bindings of the scopes above  *)
(* it, innermost first, the last one being GlobalScope.  A symbol bound in *)
(* scope k has that scope as its parent and is identified by <<k, name>>.  *)
(* A result is a value with its logs, or Throw for a thrown Error.          *)
(***************************************************************************)
wrapValue(value) == [ast |-> "value", value |-> value]

ExpSymbol(name) == [ast |-> "symbol", name |-> name]

createExpList(items) == [ast |-> "list", items |-> items]

ExpHashMap(keys, items) == [ast |-> "hashMap", keys |-> keys, items |-> items]

withLog(result, logs) == [result |-> result, logs |-> logs, thrown |-> FALSE]

\* A call that ends in a thrown Error returns nothing
Throw == [result |-> Thrown, logs |-> <<>>, thrown |-> TRUE]

Log(level, reason) == [level |-> level, reason |-> reason]

\* The while loop of inspectExpSymbol from the scope at position k on
RECURSIVE inspectWalk(_, _, _, _, _)
inspectWalk(chain, k, name, history, orig) ==
    IF k > Len(chain)
    THEN withLog([semantic |-> "undefined"],
                 <<Log("error", orig \o " is not defined")>>)
    ELSE IF name \in DOMAIN chain[k]
    THEN LET ref == chain[k][name] IN
         IF ref.ast = "symbol"
         THEN IF <<k, name>> \in history
              THEN withLog([semantic |-> "undefined"],
                     <<Log("error", "Symbol " \o orig \o " has a circular reference")>>)
              ELSE inspectWalk(chain, k, ref.name, history \cup {<<k, name>>}, orig)
         ELSE withLog([semantic |-> "ref", ref |-> ref,
                       chain |-> SubSeq(chain, k, Len(chain))], <<>>)
    ELSE inspectWalk(chain, k + 1, name, history, orig)

inspectExpSymbol(exp, chain) == inspectWalk(chain, 1, exp.name, {}, exp.name)

\* inspectExpList: "throw" for the two throw new Error() of the code
inspectExpList(exp) ==
    IF Len(exp.items) = 0 THEN [semantic |-> "throw"]
    ELSE LET fst == exp.items[1]
             rest == Tail(exp.items) IN
         IF fst.ast = "symbol" /\ fst.name = "=>"
         THEN IF Len(rest) >= 2 /\ rest[1].ast = "hashMap"
              THEN [semantic |-> "fndef", params |-> rest[1], body |-> rest[2]]
              ELSE [semantic |-> "throw"]
         ELSE [semantic |-> "application", fn |-> fst, params |-> rest]

RECURSIVE assertValueType(_)
assertValueType(v) ==
    IF ~isObject(v) THEN v
    ELSE IF isArray(v)
    THEN Array([i \in 1..Len(v.items) |-> assertValueType(v.items[i])])
    ELSE CASE v.kind = "fn" -> ValueFnType(getParamType(v), v.out)
           [] v.kind \in {"hashMap", "object"} -> ValueAny
           [] OTHER -> v

\* !v
falsy(v) ==
    v \in {Literal("number", "0"), Literal("string", ""),
           Literal("null", "null"), Literal("boolean", "false")}

\* type.cast(value) of the value types and of the Boolean union
cast(type, value) ==
    CASE type.kind = "union" ->
            Literal("boolean", IF falsy(value) THEN "false" ELSE "true")
      [] type.id = "number" -> Literal("number", "0")
      [] type.id = "string" -> Literal("string", "")
      [] type.id = "IO" -> Literal("null", "null")
      [] type.id = "fnType" -> ValueFnType(createInfVector(<<ValueAny>>), ValueAny)
      [] type.id = "hashMap" -> createHashMap([k \in {} |-> ValueUnit])

\* value instanceof type, else the cast of type
castInstance(type, value) ==
    Let(isInstanceOf(value, type), LAMBDA inst :
    IF inst = "throw" THEN Thrown
    ELSE IF inst = "true" THEN value ELSE cast(type, value))

RECURSIVE castType(_, _)
castType(type, value) ==
    IF ~isObject(type) THEN type
    ELSE IF isArray(type)
    THEN Let([i \in 1..Len(type.items) |->
                castType(type.items[i],
                         IF value.kind = "vector" /\ i <= Len(value.items)
                         THEN value.items[i] ELSE ValueUnit)], LAMBDA cs :
         IF \E i \in 1..Len(cs) : cs[i] = Thrown THEN Thrown ELSE Array(cs))
    ELSE CASE type.kind = "valueType" -> castInstance(type, value)
           [] type.kind = "fnType" -> castType(type.out, ValueUnit)
           [] type.kind = "union" ->
                IF type.cast # "none"
                THEN castInstance(type, value)
                ELSE castType(type.items[1], ValueUnit)
           [] type.kind = "singleton" -> type
           [] OTHER -> Thrown

\* The reason of a log stands for the whole message: the printed types of
\* the messages are left out.
TooShortAguments == Log("error", "Too short aguments")

TooShortArguments == Log("error", "Too short arguments")

CannotBeCasted == Log("error", "Type cannot be casted")

IsConverted == Log("info", "Value is converted")

castTypeFn ==
    wrapValue(ValueFn(":", <<ValueAny, ValueAny>>, ValueAny, FALSE))

Numerals == <<"0", "1", "2", "3", "4", "5", "6", "7", "8">>

\* a + b of two number literals; a sum beyond the numerals is not drawn
plus(x, y) ==
    LET ix == CHOOSE i \in 1..Len(Numerals) : Numerals[i] = x.value
        iy == CHOOSE i \in 1..Len(Numerals) : Numerals[i] = y.value
    IN Literal("number", Numerals[ix + iy - 1])

\* xs.reduce((a, b) => a + b, 0) over the first n results
RECURSIVE sum(_, _)
sum(xs, n) ==
    IF n = 0 THEN Literal("number", "0") ELSE plus(sum(xs, n - 1), xs[n])

RECURSIVE evalExp(_, _)
RECURSIVE assertExpType(_, _)
RECURSIVE castExpParam(_, _, _)
RECURSIVE callBody(_, _, _)
RECURSIVE evalAll(_, _, _)

\* xs.map(x => this.eval(x)): the results with the logs that
\* this.eval pushes to paramsLogs
evalAll(xs, chain, i) ==
    IF i > Len(xs) THEN withLog(<<>>, <<>>)
    ELSE Let(evalExp(xs[i], chain), LAMBDA x :
         IF x.thrown THEN Throw
         ELSE Let(evalAll(xs, chain, i + 1), LAMBDA rest :
              IF rest.thrown THEN rest
              ELSE withLog(<<x.result>> \o rest.result, x.logs \o rest.logs)))

defineFn(params, bodyExp, chain) ==
    Let(assertExpType(bodyExp, chain), LAMBDA o :
    IF o = Thrown THEN Throw
    ELSE withLog(ValueFn("defineFn", params, o, FALSE), <<>>))

\* fn.body.call(context, ...params): result is the returned value, logs the
\* paramsLogs followed by the execLogs
callBody(fn, params, chain) ==
    Let(evalAll(params, chain, 1), LAMBDA xs :
    CASE fn.id = "defineFn" -> withLog(Literal("number", "1234"), <<>>)
      [] xs.thrown -> xs
      [] fn.id = ":" ->
            Let(castType(xs.result[1], xs.result[2]), LAMBDA casted :
            IF casted = Thrown THEN Throw
            ELSE withLog(casted, xs.logs \o <<IsConverted>>))
      [] fn.id = "+" ->
            withLog(sum(xs.result, Len(xs.result)), xs.logs)
      [] fn.id = "not" ->
            withLog(Literal("boolean",
                       IF falsy(xs.result[1]) THEN "true" ELSE "false"), xs.logs)
      [] fn.id = "->" ->
            withLog(ValueFnType(xs.result[1], xs.result[2]), xs.logs))

assertExpType(exp, chain) ==
    CASE exp.ast = "value" -> assertValueType(exp.value)
      [] exp.ast = "symbol" ->
            Let(inspectExpSymbol(exp, chain).result, LAMBDA inspected :
            IF inspected.semantic = "ref"
            THEN Let(evalExp(inspected.ref, inspected.chain).result, LAMBDA e :
                 IF e = Thrown THEN Thrown ELSE assertValueType(e))
            ELSE ValueAny)
      [] exp.ast = "list" ->
            Let(inspectExpList(exp), LAMBDA inspected :
            IF inspected.semantic = "throw" THEN Thrown
            ELSE IF inspected.semantic = "application"
            THEN Let(evalExp(inspected.fn, chain).result, LAMBDA fn :
                 IF fn = Thrown THEN Thrown
                 ELSE IF isKindOf(fn, "fn") THEN fn.out
                 ELSE assertExpType(inspected.fn, chain))
            ELSE Let(evalAll(inspected.params.items, chain, 1), LAMBDA ps :
                 Let(assertExpType(inspected.body, chain), LAMBDA o :
                 IF ps.thrown \/ o = Thrown THEN Thrown
                 ELSE ValueFnType(Array(ps.result), o))))
      [] exp.ast = "hashMap" -> TypeHashMap
      \* exp.out ? assertExpType(exp) : Unit calls itself with the same node;
      \* the recursion ends in the RangeError of the call stack
      [] exp.ast = "scope" -> IF exp.out # Undef THEN Thrown ELSE ValueUnit

\* The Exp[] that the variadic branch of castExpParam fills up to minLength
RECURSIVE fill(_, _, _)
fill(to, from, minLength) ==
    IF Len(from) >= minLength THEN withLog(from, <<>>)
    ELSE Let(castType(to.items[Len(from) + 1], Literal("null", "null")), LAMBDA c :
         IF c = Thrown THEN Throw
         ELSE fill(to, Append(from, wrapValue(c)), minLength))

\* from[i], or the unit that the loop reads past the end of from
fromAt(from, i) == IF i <= Len(from) THEN from[i] ELSE wrapValue(ValueUnit)

\* The for loop of castExpParam from position i on
RECURSIVE castLoop(_, _, _, _)
castLoop(to, from, chain, i) ==
    IF i > Len(to) THEN withLog(<<>>, <<>>)
    ELSE Let(assertExpType(fromAt(from, i), chain), LAMBDA fromType :
         Let(IF fromType = Thrown THEN "throw" ELSE isSubtypeOf(fromType, to[i]),
             LAMBDA sub :
         Let(castLoop(to, from, chain, i + 1), LAMBDA rest :
         IF sub = "throw" \/ rest.thrown THEN Throw
         ELSE IF sub = "true"
         THEN withLog(<<fromAt(from, i)>> \o rest.result, rest.logs)
         ELSE withLog(
                <<createExpList(<<castTypeFn, wrapValue(to[i]), fromAt(from, i)>>)>>
                    \o rest.result,
                <<CannotBeCasted>> \o rest.logs))))

castExpParam(to, from, chain) ==
    IF isArray(to)
    THEN Let(castLoop(to.items, from, chain, 1), LAMBDA c :
         IF c.thrown THEN c
         ELSE withLog(c.result,
                 (IF Len(to.items) > Len(from) THEN <<TooShortAguments>> ELSE <<>>)
                     \o c.logs))
    ELSE Let(fill(to, from, Len(to.items) - 1), LAMBDA filled :
         IF filled.thrown THEN Throw
         ELSE Let(castLoop(slice(to.items, 0, Len(to.items) - 1)
                              \o times(Len(filled.result) - (Len(to.items) - 1),
                                       to.items[Len(to.items)]),
                           filled.result, chain, 1), LAMBDA c :
              IF c.thrown THEN c
              ELSE withLog(c.result,
                      (IF Len(from) < Len(to.items) - 1 THEN <<TooShortArguments>>
                       ELSE <<>>) \o c.logs)))

evalSymbol(exp, chain) ==
    Let(inspectExpSymbol(exp, chain), LAMBDA i :
    IF i.result.semantic = "ref"
    THEN evalExp(i.result.ref, i.result.chain)
    ELSE withLog(ValueUnit, i.logs))

evalList(exp, chain) ==
    Let(inspectExpList(exp), LAMBDA inspected :
    CASE inspected.semantic = "throw" -> Throw
      [] inspected.semantic = "application" ->
            Let(evalExp(inspected.fn, chain), LAMBDA f :
            IF f.thrown THEN f
            ELSE IF isKindOf(f.result, "fn")
            THEN Let(castExpParam(getParamType(f.result), inspected.params, chain),
                     LAMBDA c :
                 IF c.thrown THEN c
                 ELSE Let(callBody(f.result, c.result, chain), LAMBDA evaluated :
                      IF evaluated.thrown THEN evaluated
                      ELSE withLog(evaluated.result,
                                   f.logs \o c.logs \o evaluated.logs)))
            ELSE withLog(f.result, f.logs))
      [] inspected.semantic = "fndef" ->
            Let(evalAll(inspected.params.items, chain, 1), LAMBDA ps :
            IF ps.thrown THEN Throw
            ELSE defineFn(ps.result, inspected.body, chain)))

evalExp(exp, chain) ==
    CASE exp.ast = "value" -> withLog(exp.value, <<>>)
      [] exp.ast = "symbol" -> evalSymbol(exp, chain)
      [] exp.ast = "list" -> evalList(exp, chain)
      [] exp.ast = "scope" ->
            IF exp.out # Undef
            THEN evalExp(exp.out, <<exp.scope>> \o chain)
            ELSE withLog(ValueUnit, <<>>)

(***************************************************************************)
(* 08_syntaxdev/glisp.ts: the writes of wrapValue.  wrapValue(value)       *)
(* assigns the new node to value.origExp when value is a singleton or a    *)
(* value type.  The operators below follow the evaluator and collect the   *)
(* ids of the values that it passes to wrapValue: the calls in the fill    *)
(* loop and in the for loop of castExpParam.  Every such node is created   *)
(* without a parent.                                                       *)
(***************************************************************************)
wrapOf(value) ==
    IF isKindOf(value, "singleton") \/ isKindOf(value, "valueType")
    THEN {value.id} ELSE {}

RECURSIVE wrappedEvalExp(_, _)
RECURSIVE wrappedEvalAll(_, _, _)
RECURSIVE wrappedAssertExpType(_, _)
RECURSIVE wrappedCastLoop(_, _, _, _)

wrappedEvalAll(xs, chain, i) ==
    IF i > Len(xs) THEN {}
    ELSE wrappedEvalExp(xs[i], chain)
         \cup (IF evalExp(xs[i], chain).thrown THEN {}
               ELSE wrappedEvalAll(xs, chain, i + 1))

wrappedAssertExpType(exp, chain) ==
    CASE exp.ast = "symbol" ->
            Let(inspectExpSymbol(exp, chain).result, LAMBDA inspected :
            IF inspected.semantic = "ref"
            THEN wrappedEvalExp(inspected.ref, inspected.chain) ELSE {})
      [] exp.ast = "list" ->
            Let(inspectExpList(exp), LAMBDA inspected :
            IF inspected.semantic = "throw" THEN {}
            ELSE IF inspected.semantic = "application"
            THEN wrappedEvalExp(inspected.fn, chain)
                 \cup Let(evalExp(inspected.fn, chain).result, LAMBDA fn :
                      IF fn = Thrown \/ isKindOf(fn, "fn") THEN {}
                      ELSE wrappedAssertExpType(inspected.fn, chain))
            ELSE wrappedEvalAll(inspected.params.items, chain, 1)
                 \cup (IF evalAll(inspected.params.items, chain, 1).thrown THEN {}
                       ELSE wrappedAssertExpType(inspected.body, chain)))
      [] OTHER -> {}

RECURSIVE wrappedFill(_, _, _)
wrappedFill(to, from, minLength) ==
    IF Len(from) >= minLength THEN {}
    ELSE Let(castType(to.items[Len(from) + 1], Literal("null", "null")), LAMBDA c :
         IF c = Thrown THEN {}
         ELSE wrapOf(c) \cup wrappedFill(to, Append(from, wrapValue(c)), minLength))

wrappedCastLoop(to, from, chain, i) ==
    IF i > Len(to) THEN {}
    ELSE wrappedAssertExpType(fromAt(from, i), chain)
         \cup Let(assertExpType(fromAt(from, i), chain), LAMBDA fromType :
              IF fromType = Thrown THEN {}
              ELSE Let(isSubtypeOf(fromType, to[i]), LAMBDA sub :
                   IF sub = "throw" THEN {}
                   ELSE (IF sub = "true" THEN {} ELSE wrapOf(to[i]))
                        \cup wrappedCastLoop(to, from, chain, i + 1)))

wrappedCastExpParam(to, from, chain) ==
    IF isArray(to) THEN wrappedCastLoop(to.items, from, chain, 1)
    ELSE wrappedFill(to, from, Len(to.items) - 1)
         \cup Let(fill(to, from, Len(to.items) - 1), LAMBDA filled :
              IF filled.thrown THEN {}
              ELSE wrappedCastLoop(
                     slice(to.items, 0, Len(to.items) - 1)
                         \o times(Len(filled.result) - (Len(to.items) - 1),
                                  to.items[Len(to.items)]),
                     filled.result, chain, 1))

\* the body of defineFn evaluates no parameter
wrappedCallBody(fn, params, chain) ==
    IF fn.id = "defineFn" THEN {} ELSE wrappedEvalAll(params, chain, 1)

wrappedEvalList(exp, chain) ==
    Let(inspectExpList(exp), LAMBDA inspected :
    CASE inspected.semantic = "throw" -> {}
      [] inspected.semantic = "application" ->
            wrappedEvalExp(inspected.fn, chain)
            \cup Let(evalExp(inspected.fn, chain), LAMBDA f :
                 IF f.thrown \/ ~isKindOf(f.result, "fn") THEN {}
                 ELSE wrappedCastExpParam(getParamType(f.result),
                                          inspected.params, chain)
                      \cup Let(castExpParam(getParamType(f.result),
                                            inspected.params, chain), LAMBDA c :
                           IF c.thrown THEN {}
                           ELSE wrappedCallBody(f.result, c.result, chain)))
      [] inspected.semantic = "fndef" ->
            wrappedEvalAll(inspected.params.items, chain, 1)
            \cup (IF evalAll(inspected.params.items, chain, 1).thrown THEN {}
                  ELSE wrappedAssertExpType(inspected.body, chain)))

wrappedEvalExp(exp, chain) ==
    CASE exp.ast = "value" -> {}
      [] exp.ast = "symbol" ->
            Let(inspectExpSymbol(exp, chain).result, LAMBDA inspected :
            IF inspected.semantic = "ref"
            THEN wrappedEvalExp(inspected.ref, inspected.chain) ELSE {})
      [] exp.ast = "list" -> wrappedEvalList(exp, chain)
      [] exp.ast = "scope" ->
            IF exp.out # Undef
            THEN wrappedEvalExp(exp.out, <<exp.scope>> \o chain) ELSE {}

\* The parent of the node that value.origExp points to, for the value types
\* and singletons by id: GlobalScope for those that GlobalScope binds to a
\* name, no origExp for TypeHashMap.
InitOrigExp ==
    [id \in {"number", "string", "fnType", "IO", "LT", "EQ", "hashMap"} |->
        IF id = "hashMap" THEN "undefined" ELSE "GlobalScope"]

\* origExp after the nodes of the ids were created without a parent
wrapAll(ids) == [id \in DOMAIN origExp |-> IF id \in ids THEN "orphan" ELSE origExp[id]]

\* The name of GlobalScope whose node is s.origExp; "" when it returns
\* undefined
retrieveValueName(s) ==
    IF origExp[s.id] # "GlobalScope" THEN ""
    ELSE CASE s.id = "number" -> "Number"
           [] s.id = "string" -> "String"
           [] s.id = "fnType" -> "FnType"
           [] OTHER -> s.id

\* printValue of a value type or a singleton
printValue(val) ==
    IF retrieveValueName(val) # "" THEN retrieveValueName(val)
    ELSE IF val.kind = "valueType" THEN "<valueType>" ELSE "<singleton>"

\* The bindings of GlobalScope that the programs below use
GlobalScope ==
    ("Number" :> wrapValue(TypeNumber))
    @@ ("+" :> wrapValue(ValueFn("+", <<TypeNumber>>, TypeNumber, TRUE)))
    @@ ("not" :> wrapValue(ValueFn("not", <<TypeBoolean>>, TypeBoolean, FALSE)))
    @@ ("->" :> wrapValue(ValueFn("->", <<createInfVector(<<ValueAny>>), ValueAny>>,
                                  TypeFnType, FALSE)))
    @@ (":" :> castTypeFn)

createExpScope(scope, o) == [ast |-> "scope", scope |-> scope, out |-> o]

(***************************************************************************)
(* Programs of 08_syntaxdev: Exp trees over two drawn values x and y       *)
(***************************************************************************)
\* (=> {keys[i]: types[i] ...} bodyExp)
FnDef(keys, types, bodyExp) ==
    createExpList(<<ExpSymbol("=>"),
                    ExpHashMap(keys, [i \in 1..Len(types) |-> wrapValue(types[i])]),
                    bodyExp>>)

ExpNumber(n) == wrapValue(Literal("number", n))

Shapes == {"apply", "short", "cast", "arrow", "arrowShort", "not", "sum", "arith"}

Program(shape, x, y) ==
    CASE shape = "apply" ->       \* ((=> {x: x} x) y)
            createExpList(<<FnDef(<<"x">>, <<x>>, ExpSymbol("x")), wrapValue(y)>>)
      [] shape = "short" ->       \* ((=> {x: Any y: x} x) y)
            createExpList(<<FnDef(<<"x", "y">>, <<ValueAny, x>>, ExpSymbol("x")),
                            wrapValue(y)>>)
      [] shape = "cast" ->        \* (: x y)
            createExpList(<<ExpSymbol(":"), wrapValue(x), wrapValue(y)>>)
      [] shape = "arrow" ->       \* (-> y x)
            createExpList(<<ExpSymbol("->"), wrapValue(y), wrapValue(x)>>)
      [] shape = "arrowShort" ->  \* (-> y)
            createExpList(<<ExpSymbol("->"), wrapValue(y)>>)
      [] shape = "not" ->         \* (not y)
            createExpList(<<ExpSymbol("not"), wrapValue(y)>>)
      [] shape = "sum" ->         \* (+ 3 4)
            createExpList(<<ExpSymbol("+"), ExpNumber("3"), ExpNumber("4")>>)
      [] shape = "arith" ->       \* ((=> {x: Number y: Number} (+ x y)) 3 4)
            createExpList(
                <<createExpList(
                      <<ExpSymbol("=>"),
                        ExpHashMap(<<"x", "y">>,
                                   <<ExpSymbol("Number"), ExpSymbol("Number")>>),
                        createExpList(<<ExpSymbol("+"), ExpSymbol("x"),
                                        ExpSymbol("y")>>)>>),
                  ExpNumber("3"), ExpNumber("4")>>)

\* What a name of a scope is bound to: nothing, a bare symbol, or a value
Absent == [ast |-> "absent"]

Bindings ==
    {Absent, ExpSymbol("a"), ExpSymbol("b"), ExpSymbol("c"), ExpNumber("1"), ExpNumber("2")}

bind(name, exp) == IF exp = Absent THEN <<>> ELSE name :> exp

Layouts == {"flat", "nested"}

\* flat:   {a = x  b = y  name}
\* nested: {b = y  {a = x  name}}
ScopeProgram(layout, x, y, name) ==
    IF layout = "flat"
    THEN createExpScope(bind("a", x) @@ bind("b", y), ExpSymbol(name))
    ELSE createExpScope(bind("b", y),
                        createExpScope(bind("a", x), ExpSymbol(name)))

Family(f) ==
    CASE f = "mixed" -> Mixed
      [] f = "vec" -> Vecs
      [] f = "dict" -> Dicts
      [] f = "fn" -> FnTypes
      [] f = "g8" -> G8Values
      [] f = "scope" -> Bindings

ValFamilies == {"mixed", "vec", "dict", "fn"}

(***************************************************************************)
(* Specification: two values are drawn, then an operation is applied       *)
(***************************************************************************)
Init ==
    /\ fam \in ValFamilies \cup {"g8", "scope"}
    /\ a \in Family(fam)
    /\ b \in Family(fam)
    /\ op = "init"
    /\ out = Undef
    /\ res = "none"
    /\ impl = "none" /\ ret = "" /\ heap = <<>> /\ ops = 0 /\ ev = Undef
    /\ origExp = InitOrigExp

\* a.isSubtypeOf(b)
IsSubtypeOfOp ==
    /\ fam \in ValFamilies
    /\ op = "init"
    /\ op' = "isSubtypeOf"
    /\ res' = B(IsSubtypeOf(a, b))
    /\ UNCHANGED <<fam, a, b, out, ivars, origExp>>

\* isSubtypeOf(a, b) of 08_syntaxdev/glisp.ts
IsSubtypeOf8Op ==
    /\ fam = "g8"
    /\ op = "init"
    /\ op' = "compareType"
    /\ res' = isSubtypeOf(a, b)
    /\ UNCHANGED <<fam, a, b, out, ivars, origExp>>

\* uniteType([a, b])
UniteTypeOp ==
    /\ fam = "g8"
    /\ op = "init"
    /\ op' = "uniteType"
    /\ out' = uniteType(<<a, b>>, "none")
    /\ res' = IF out' = Thrown THEN "throw" ELSE "none"
    /\ UNCHANGED <<fam, a, b, ivars, origExp>>

\* isSubtypeOf(a, u) and isSubtypeOf(b, u) with u the result of uniteType
IsSubtypeOfUnionOp ==
    /\ fam = "g8"
    /\ op = "uniteType"
    /\ out # Thrown
    /\ \E which \in {"a", "b"} :
          /\ op' = "isSubtypeOfUnion." \o which
          /\ res' = isSubtypeOf(IF which = "a" THEN a ELSE b, out)
    /\ UNCHANGED <<fam, a, b, out, ivars, origExp>>

\* evalExp of a program over a and b, read at the top level of GlobalScope
EvalExpOp ==
    /\ fam = "g8"
    /\ op = "init"
    /\ \E shape \in Shapes :
          /\ op' = "evalExp." \o shape
          /\ out' = evalExp(Program(shape, a, b), <<GlobalScope>>)
          /\ origExp' = wrapAll(wrappedEvalExp(Program(shape, a, b), <<GlobalScope>>))
    /\ res' = IF out'.thrown THEN "throw" ELSE "ok"
    /\ UNCHANGED <<fam, a, b, ivars>>

\* evalExp of a scope that binds the names a and b to the nodes a and b
EvalScopeOp ==
    /\ fam = "scope"
    /\ op = "init"
    /\ \E layout \in Layouts, name \in {"a", "b", "c"} :
          /\ op' = "evalExp." \o layout \o "." \o name
          /\ out' = evalExp(ScopeProgram(layout, a, b, name), <<GlobalScope>>)
          /\ origExp' = wrapAll(wrappedEvalExp(ScopeProgram(layout, a, b, name),
                                                <<GlobalScope>>))
    /\ res' = IF out'.thrown THEN "throw" ELSE "ok"
    /\ UNCHANGED <<fam, a, b, ivars>>

\* castExpParam([a], [b]): the parameters a call passes to a function that
\* declares one parameter of type a, when the argument is the value b
CastExpParamOp ==
    /\ fam = "g8"
    /\ op = "init"
    /\ op' = "castExpParam"
    /\ out' = castExpParam(Array(<<a>>), <<wrapValue(b)>>, <<GlobalScope>>)
    /\ res' = IF out'.thrown THEN "throw" ELSE "ok"
    /\ origExp' = wrapAll(wrappedCastExpParam(Array(<<a>>), <<wrapValue(b)>>, <<GlobalScope>>))
    /\ UNCHANGED <<fam, a, b, ivars>>

\* this.eval(x) of the parameter that castExpParam returned
EvalParamOp ==
    /\ fam = "g8"
    /\ op = "castExpParam"
    /\ res = "ok"
    /\ op' = "evalParam"
    /\ out' = [evalExp(out.result[1], <<GlobalScope>>) EXCEPT !.logs = out.logs \o @]
    /\ res' = IF out'.thrown THEN "throw" ELSE "ok"
    /\ origExp' = wrapAll(wrappedEvalExp(out.result[1], <<GlobalScope>>))
    /\ UNCHANGED <<fam, a, b, ivars>>

\* a.withDefault(b)
WithDefaultOp ==
    /\ fam \in ValFamilies
    /\ op = "init"
    /\ op' = "withDefault"
    /\ out' = WithDefault(a, b)
    /\ res' = IF out'.thrown THEN "throw" ELSE "ok"
    /\ UNCHANGED <<fam, a, b, ivars, origExp>>

\* a.fn(index) of a Vec a
VecFnOp ==
    /\ fam = "vec"
    /\ op = "init"
    /\ a.type = "Vec"
    /\ \E half \in IndexHalves :
          /\ op' = "Vec.fn"
          /\ out' = [index |-> half, ret |-> VecFn(a, half)]
    /\ res' = IF out'.ret.thrown THEN "throw" ELSE "ok"
    /\ UNCHANGED <<fam, a, b, ivars, origExp>>

\* a.isEqualTo(b), b.isEqualTo(a) and a.isEqualTo(a)
IsEqualToOp ==
    /\ fam \in ValFamilies
    /\ op = "init"
    /\ op' = "isEqualTo"
    /\ out' = [ab |-> IsEqualTo(a, b), ba |-> IsEqualTo(b, a),
               aa |-> IsEqualTo(a, a)]
    /\ UNCHANGED <<fam, a, b, res, ivars, origExp>>

\* a.defaultValue, read twice
DefaultValueOp ==
    /\ fam \in ValFamilies
    /\ op = "init"
    /\ op' = "defaultValue"
    /\ out' = [first |-> DefaultValue(a), second |-> DefaultValue(a)]
    /\ UNCHANGED <<fam, a, b, res, ivars, origExp>>

\* b.isSubtypeOf(third) and a.isSubtypeOf(third) for a third value, after
\* a.isSubtypeOf(b) returned true
IsSubtypeOfThirdOp ==
    /\ fam \in ValFamilies
    /\ op = "isSubtypeOf"
    /\ res = "true"
    /\ op' = "isSubtypeOf.third"
    /\ \E third \in Family(fam) :
          out' = [third |-> third, bc |-> IsSubtypeOf(b, third),
                  ac |-> IsSubtypeOf(a, third)]
    /\ UNCHANGED <<fam, a, b, res, ivars, origExp>>

\* assertExpType(arg), as castExpParam calls it for a call argument, when the
\* argument is the scope {a = a  b = b  o} or the scope without output
AssertExpTypeOp ==
    /\ fam = "scope"
    /\ op = "init"
    /\ op' = "assertExpType"
    /\ \E o \in {Undef, ExpSymbol("a"), ExpNumber("1")} :
          out' = [arg |-> createExpScope(bind("a", a) @@ bind("b", b), o),
                  type |-> assertExpType(
                               createExpScope(bind("a", a) @@ bind("b", b), o),
                               <<GlobalScope>>)]
    /\ res' = IF out'.type = Thrown THEN "throw" ELSE "ok"
    /\ UNCHANGED <<fam, a, b, ivars, origExp>>

Next ==
    \/ IsSubtypeOfOp
    \/ AssertExpTypeOp
    \/ IsSubtypeOfThirdOp
    \/ IsSubtypeOf8Op
    \/ UniteTypeOp
    \/ IsSubtypeOfUnionOp
    \/ EvalExpOp
    \/ EvalScopeOp
    \/ CastExpParamOp
    \/ EvalParamOp
    \/ WithDefaultOp
    \/ VecFnOp
    \/ IsEqualToOp
    \/ DefaultValueOp

Spec == Init /\ [][Next]_vars

(***************************************************************************)
(* Claims                                                                  *)
(***************************************************************************)
Subtyped == op = "isSubtypeOf"

Subtyped8 == op = "compareType"

NoRest(v) == v.rest = Undef

\* C1: subtyping is reflexive: for every value v, v.isSubtypeOf(v) is true.
C1_Reflexive == (Subtyped /\ a = b) => res = "true"

C1_Witness ==
    /\ Subtyped /\ a = b /\ res = "true"
    /\ a.type = "Vec" /\ a.rest # Undef /\ a.optionalPos < Len(a.items)

\* C2: every value is a subtype of every value of variant All, All.instance
\* as well as an All returned by All.withDefault.
C2_AllIsUniversalSupertype == (Subtyped /\ b.type = "All") => res = "true"

\* C3: a non-union value is a subtype of a UnionType iff it is a subtype of
\* some member; a UnionType is a subtype of T iff each of its members is a
\* subtype of T (of some member of T when T is a union); a Num and a Str
\* value are subtypes of UnionType([Num, Str]), a value of another primitive
\* or enum type is not.
C3_MembersOf(t) == IF t.type = "UnionType" THEN t.types ELSE <<t>>

C3_MembersOf8(t) == IF isKindOf(t, "union") THEN t.items ELSE <<t>>

C3_Union8 ==
    (Subtyped8 /\ isKindOf(b, "union")) =>
        (res = "true" <=>
            \A i \in 1..Len(C3_MembersOf8(a)) :
                \E j \in 1..Len(b.items) :
                    isSubtypeOf(C3_MembersOf8(a)[i], b.items[j]) = "true")

C3_UnionVal ==
    /\ (Subtyped /\ a.type # "UnionType" /\ b.type = "UnionType") =>
          (res = "true" <=> \E j \in 1..Len(b.types) : IsSubtypeOf(a, b.types[j]))
    /\ (Subtyped /\ a.type = "UnionType") =>
          (res = "true" <=>
              \A i \in 1..Len(a.types) :
                  \E j \in 1..Len(C3_MembersOf(b)) :
                      IsSubtypeOf(a.types[i], C3_MembersOf(b)[j]))
    /\ (Subtyped /\ b = UnionNumStr /\ a.type \in {"Prim", "Enum"}) =>
          (res = "true" <=> a.superType \in {NumType, StrType})

C5_VecRequiredAndExtra ==
    (/\ Subtyped /\ a.type = "Vec" /\ b.type = "Vec"
     /\ NoRest(a) /\ NoRest(b) /\ Len(a.items) >= Len(b.items)) =>
        (res = "true" <=>
            /\ a.optionalPos >= b.optionalPos
            /\ \A i \in 1..Len(b.items) : IsSubtypeOf(a.items[i], b.items[i]))

C5_Witness ==
    /\ Subtyped /\ a = Vec(<<NumType, NumType>>, 2, Undef)
    /\ b = Vec(<<NumType>>, 1, Undef) /\ res = "true"

\* C6: a Vec c without rest with fewer items than the Vec s without rest is
\* a subtype of s whenever c.optionalPos >= s.optionalPos, c has at least
\* s.optionalPos items and each item of c is a subtype of the item of s at
\* its position.
C6_VecOmittedOptional ==
    (/\ Subtyped /\ a.type = "Vec" /\ b.type = "Vec"
     /\ NoRest(a) /\ NoRest(b) /\ Len(a.items) < Len(b.items)
     /\ a.optionalPos >= b.optionalPos /\ Len(a.items) >= b.optionalPos
     /\ \A i \in 1..Len(a.items) : IsSubtypeOf(a.items[i], b.items[i])) =>
        res = "true"

\* C7: when the Vec s has a rest type, c.isSubtypeOf(s) only if every item
\* of c beyond the items of s is a subtype of s.rest and, when c has a rest
\* type, c.rest is a subtype of s.rest.
C7_VecRest ==
    (/\ Subtyped /\ a.type = "Vec" /\ b.type = "Vec"
     /\ b.rest # Undef /\ res = "true") =>
        /\ \A i \in 1..Len(a.items) :
               i > Len(b.items) => IsSubtypeOf(a.items[i], b.rest)
        /\ a.rest # Undef => IsSubtypeOf(a.rest, b.rest)

\* C8: c.isSubtypeOf(s) for Dicts only if every key required in s is
\* required in c with a subtype value, and every key optional in s that c
\* declares, by the key or by c.rest, has a subtype value; a key optional in
\* s may be absent from c: Dict({a: Num}) is a subtype of
\* Dict({a: Num, b: Str}) with optional keys {b}.
C8_Required(d, k) == k \in DOMAIN d.items /\ k \notin d.optionalKeys

C8_KeysOk(c, s) ==
    \A k \in DOMAIN s.items :
        IF C8_Required(s, k)
        THEN C8_Required(c, k) /\ IsSubtypeOf(c.items[k], s.items[k])
        ELSE /\ k \in DOMAIN c.items => IsSubtypeOf(c.items[k], s.items[k])
             /\ (k \notin DOMAIN c.items /\ c.rest # Undef) =>
                    IsSubtypeOf(c.rest, s.items[k])

C8_DictKeys ==
    /\ (Subtyped /\ a.type = "Dict" /\ b.type = "Dict" /\ res = "true") =>
          C8_KeysOk(a, b)
    /\ (Subtyped /\ a.type = "Dict" /\ b.type = "Dict" /\ NoRest(b)
        /\ C8_KeysOk(a, b)) => res = "true"

C8_Witness ==
    /\ Subtyped /\ res = "true"
    /\ a = Dict([k \in {"a"} |-> NumType], {}, Undef)
    /\ b = Dict([k \in {"a", "b"} |-> IF k = "a" THEN NumType ELSE StrType],
                {"b"}, Undef)

\* C9: for FnTypes f and g, f.isSubtypeOf(g) iff the parameter vector of g
\* is a Vec-subtype of the parameter vector of f and f.out is a subtype of
\* g.out.
C9_ParamVec(f) == Vec(f.param, f.optionalPos, f.rest)

C9_FnTypeVariance ==
    (Subtyped /\ a.type = "FnType" /\ b.type = "FnType") =>
        (res = "true" <=>
            /\ VecIsSubtypeOf(C9_ParamVec(b), C9_ParamVec(a))
            /\ IsSubtypeOf(a.out, b.out))

C9_Witness ==
    /\ Subtyped /\ a.type = "FnType" /\ b.type = "FnType" /\ res = "true"
    /\ a.param # b.param /\ a.out # b.out /\ a.rest # b.rest

\* C10 as stated: FnType([Never] -> Num) is a subtype of
\* FnType([Num] -> Num), and FnType([Num, Num] -> Num) is not a subtype of
\* FnType([Never] -> Num).
C10_FnNever == FnType(<<Never>>, 1, Undef, NumType)

C10_FnNum == FnType(<<NumType>>, 1, Undef, NumType)

C10_FnNumNum == FnType(<<NumType, NumType>>, 2, Undef, NumType)

C10_Original ==
    /\ (Subtyped /\ a = C10_FnNever /\ b = C10_FnNum) => res = "true"
    /\ (Subtyped /\ a = C10_FnNumNum /\ b = C10_FnNever) => res = "false"

\* C10 amended: FnType([Num] -> Num) is a subtype of FnType([Never] -> Num)
\* and FnType([Never] -> Num) is not a subtype of FnType([Num] -> Num);
\* FnType([Num, Num] -> Num) is not a subtype of FnType([Never] -> Num).
C10_Amended ==
    /\ (Subtyped /\ a = C10_FnNum /\ b = C10_FnNever) => res = "true"
    /\ (Subtyped /\ a = C10_FnNever /\ b = C10_FnNum) => res = "false"
    /\ (Subtyped /\ a = C10_FnNumNum /\ b = C10_FnNever) => res = "false"

C10_Witness == Subtyped /\ a = C10_FnNum /\ b = C10_FnNever /\ res = "true"

\* C4: for all values a and b, isSubtypeOf(a, uniteType([a, b])) and
\* isSubtypeOf(b, uniteType([a, b])) hold, and neither call throws.
C4_UnionLaw ==
    /\ op = "uniteType" => out # Thrown
    /\ op \in {"isSubtypeOfUnion.a", "isSubtypeOfUnion.b"} => res = "true"


(***************************************************************************)
(* The memoising evaluator (unnamed/part_000)                              *)
(*                                                                         *)
(* Expression nodes are mutable objects; the heap is a sequence of node    *)
(* records and a node's identity is its index.  The fields val, name,     *)
(* items and binds are the node's "value" for the ast kinds value, symbol, *)
(* list and hashMap; parent, ref, dep, evaluated and label are the         *)
(* optional fields of ExpBase, with 0, the empty set, Undef and "" for an  *)
(* absent field.  invoked counts the calls of a list node's function body. *)
(* Values are tagged by "type"; primitive values carry their printed form. *)
(***************************************************************************)
ValuePrim(v) == [type |-> "prim", value |-> v]

TypeAll == [type |-> "all"]

TypeBooleanUnion ==
    [type |-> "union", items |-> <<ValuePrim("true"), ValuePrim("false")>>]

ValueHashMap == [type |-> "hashMap"]

createTypeFn(params, o, lazyEval) ==
    [type |-> "fnType", params |-> params, out |-> o, lazyEval |-> lazyEval]

\* A thrown Error; h is the heap at the time of the throw.
Err(reason, name) == [type |-> "error", reason |-> reason, name |-> name]

\* An Exp returned by a function body instead of a Value.
ExpRef(e) == [type |-> "exp", id |-> e]

isErr(v) == v.type = "error"

\* if (x) ... of JavaScript for a memoised result
Truthy(v) ==
    /\ v # Undef
    /\ ~(v.type = "prim" /\ v.value \in {"0", "false", "null", ""})

Node(ast) ==
    [ast |-> ast, val |-> Undef, name |-> "", items |-> <<>>, binds |-> <<>>,
     parent |-> 0, ref |-> 0, dep |-> {}, evaluated |-> Undef, label |-> "",
     invoked |-> 0]

wrapExp(value, parent) == [Node("value") EXCEPT !.val = value, !.parent = parent]

createSymbol(value, parent) ==
    [Node("symbol") EXCEPT !.name = value, !.parent = parent]

createList(value, parent) ==
    [Node("list") EXCEPT !.items = value, !.parent = parent]

createSpecialListHashMap(value, parent) ==
    [Node("hashMap") EXCEPT !.binds = value, !.parent = parent]

createFn(body, ty, parent) ==
    wrapExp([type |-> "fn", body |-> body, fnType |-> ty], parent)

\* Node ids of the interpreter's vars and scope; GlobalScope is node 1.
InterpreterVars == 10
InterpreterScope == 8

\* GlobalScope with let and if, and the host's side-effecting primitives p
\* and q; then the scope and vars an Interpreter constructs.
InitHeap ==
    [n |-> <<
        createList(<<2, 3>>, 0),
        createSymbol("let", 1),
        createSpecialListHashMap(
            [k \in {"let", "if", "p", "q"} |->
                CASE k = "let" -> 4 [] k = "if" -> 5 [] k = "p" -> 6
                  [] k = "q" -> 7], 1),
        createFn("let",
            createTypeFn(<<createTypeFn(<<[type |-> "infUnion", original |-> "String"]>>,
                                      TypeAll, <<>>), TypeAll>>,
                         TypeAll, <<>>), 3),
        createFn("if",
            createTypeFn(<<TypeBooleanUnion, TypeAll, TypeAll>>, TypeAll,
                         <<FALSE, TRUE, TRUE>>), 3),
        createFn("p", createTypeFn(<<TypeAll, TypeAll>>, TypeAll, <<>>), 3),
        createFn("q", createTypeFn(<<TypeAll, TypeAll>>, TypeAll, <<>>), 3),
        createList(<<9, 10>>, 1),
        createSymbol("let", InterpreterScope),
        createSpecialListHashMap([k \in {"def"} |-> 11], InterpreterScope),
        createFn("def", createTypeFn(<<TypeAll>>, TypeAll, <<TRUE>>), 0)
      >>]

\* The result of a step that may change the heap: the heap and a value.
R(h, v) == [h |-> h, v |-> v]

isListOf(h, sym, e) ==
    /\ h.n[e].ast = "list"
    /\ Len(h.n[e].items) >= 1
    /\ h.n[h.n[e].items[1]].ast = "symbol"
    /\ h.n[h.n[e].items[1]].name = sym

\* The while loop of resolveSymbol: the bound node, 0 when the walk ends
\* without one, -1 for a let whose second item is not a hashMap.
RECURSIVE resolveWalk(_, _, _)
resolveWalk(h, e, name) ==
    LET parent == h.n[e].parent IN
    IF parent = 0 THEN 0
    ELSE IF isListOf(h, "let", parent)
         THEN LET vs == h.n[h.n[parent].items[2]] IN
              IF vs.ast # "hashMap" THEN -1
              ELSE IF name \in DOMAIN vs.binds THEN vs.binds[name]
              ELSE resolveWalk(h, parent, name)
         ELSE resolveWalk(h, parent, name)

resolveSymbol(h, sym) ==
    IF h.n[sym].ref # 0 THEN R(h, ExpRef(h.n[sym].ref))
    ELSE Let(resolveWalk(h, sym, h.n[sym].name), LAMBDA ref :
         IF ref = -1 THEN R(h, Err("let", h.n[sym].name))
         ELSE IF ref = 0 THEN R(h, Err("not defined", h.n[sym].name))
         ELSE R([h EXCEPT !.n[sym].ref = ref,
                          !.n[ref].dep = @ \cup {sym}], ExpRef(ref)))

\* The entries of a hashMap node in the order they were written.
entries(x) ==
    LET ks == SelectSeq(<<"a", "b">>, LAMBDA k : k \in DOMAIN x.binds)
    IN [i \in 1..Len(ks) |-> x.binds[ks[i]]]

\* A Value[] of the code.
ValueArray(items) == [type |-> "array", items |-> items]

\* inferType; path holds the forms of the calls in progress.  A form that
\* comes back while it is in progress comes back for ever: the recursion
\* ends with the host's stack overflow.  No list of the model is a '=>'
\* list, so a list has the type of its first item.
RECURSIVE inferType(_, _, _)
RECURSIVE inferTypes(_, _, _, _)
inferType(h, form, path) ==
    LET x == h.n[form] IN
    IF form \in path THEN R(h, Err("stack overflow", ""))
    ELSE CASE x.ast = "value" -> R(h, x.val)
           [] x.ast = "symbol" ->
                Let(resolveSymbol(h, form), LAMBDA r :
                IF isErr(r.v) THEN r
                ELSE inferType(r.h, r.v.id, path \cup {form}))
           [] x.ast = "list" ->
                inferType(h, x.items[1], path \cup {form})
           [] x.ast = "hashMap" ->
                Let(inferTypes(h, entries(x), path \cup {form}, 1), LAMBDA r :
                IF isErr(r.v) THEN r ELSE R(r.h, ValueHashMap))

\* form.value.map(inferType) of a vector: the types, or the first throw
inferTypes(h, forms, path, i) ==
    IF i > Len(forms) THEN R(h, ValueArray(<<>>))
    ELSE Let(inferType(h, forms[i], path), LAMBDA r :
         IF isErr(r.v) THEN r
         ELSE Let(inferTypes(r.h, forms, path, i + 1), LAMBDA rs :
              IF isErr(rs.v) THEN rs
              ELSE R(rs.h, ValueArray(<<r.v>> \o rs.v.items))))

createVoid == [type |-> "void"]

createRestVector(value) == [type |-> "restVector", value |-> value]

\* A hashMap value; its value object is the sequence of its entries in the
\* order of the keys.
HashMapOf(value) == [type |-> "hashMap", value |-> value]

Entry(key, value) == [key |-> key, value |-> value]

\* The infinite unions of the source, named by the type that wrapTypeInfUnion
\* records in original.
InfUnion(name) == [type |-> "infUnion", original |-> name]

\* supersets of the infinite unions
supersets(v) ==
    CASE v.original \in {"Int", "PosNumber"} -> <<InfUnion("Number")>>
      [] v.original = "Nat" -> <<InfUnion("Int"), InfUnion("PosNumber")>>
      [] OTHER -> <<>>

\* typeof of a primitive, from its printed form
typeofPrim(v) ==
    CASE v.value \in {"true", "false"} -> "boolean"
      [] v.value = "null" -> "object"
      [] v.value \in {Numerals[i] : i \in 1..Len(Numerals)} \cup {"-1"} -> "number"
      [] OTHER -> "string"

\* outer.predicate(inner) of an infinite union; every number drawn is an
\* integer
infPredicate(outer, inner) ==
    CASE outer.original \in {"Number", "Int"} -> typeofPrim(inner) = "number"
      [] outer.original \in {"PosNumber", "Nat"} ->
            typeofPrim(inner) = "number" /\ inner.value # "-1"
      [] outer.original = "String" -> typeofPrim(inner) = "string"

isValueHashMap(value) == value.type = "restVector"

\* _.keys of the value object of a hashMap or of the array of a restVector
keysOf(v) ==
    IF v.type = "restVector"
    THEN {<<"0", "1", "2">>[i] : i \in 1..Len(v.value)}
    ELSE {v.value[i].key : i \in 1..Len(v.value)}

\* b.value[key] for a key of keysOf(b)
valueAt(v, key) ==
    IF v.type = "restVector"
    THEN v.value[CHOOSE i \in 1..Len(v.value) : <<"0", "1", "2">>[i] = key]
    ELSE v.value[CHOOSE i \in 1..Len(v.value) : v.value[i].key = key].value

RECURSIVE isEqualValue(_, _)
isEqualValue(x, y) ==
    CASE x.type = "prim" -> x = y
      [] x.type = "array" ->
            /\ y.type = "array"
            /\ Len(x.items) = Len(y.items)
            /\ \A i \in 1..Len(x.items) : isEqualValue(x.items[i], y.items[i])
      [] x.type = "all" -> y.type = "all"
      [] x.type = "void" -> y.type = "void"
      [] x.type = "restVector" ->
            /\ y.type = "restVector"
            /\ Len(x.value) = Len(y.value)
            /\ \A i \in 1..Len(x.value) : isEqualValue(x.value[i], y.value[i])
      [] x.type = "hashMap" ->
            /\ isValueHashMap(y)
            /\ keysOf(x) = keysOf(y)
            /\ \A i \in 1..Len(x.value) :
                   isEqualValue(x.value[i].value, valueAt(y, x.value[i].key))
      [] x.type = "fn" -> y.type = "fn" /\ x.body = y.body
      [] x.type = "union" ->
            /\ y.type = "union"
            /\ Len(x.items) = Len(y.items)
            /\ \A i \in 1..Len(x.items) :
                   \E j \in 1..Len(y.items) : isEqualValue(x.items[i], y.items[j])
      [] x.type = "infUnion" -> x = y
      [] x.type = "fnType" ->
            /\ y.type = "fnType"
            /\ isEqualValue(x.out, y.out)
            /\ isEqualValue(ValueArray(x.params), ValueArray(y.params))

\* innerItems of the union case of containsValue
itemsOf(v) == IF v.type = "union" THEN v.items ELSE <<v>>

\* containsValue.  An object is identified with its structure, so
\* outer === inner is the equality of the two values.  The params of a
\* function type are an array, and no hashMap is an outer.
RECURSIVE containsValue(_, _)
containsValue(outer, inner) ==
    IF outer = inner THEN TRUE
    ELSE IF outer.type = "prim" THEN isEqualValue(outer, inner)
    ELSE IF outer.type = "array"
    THEN /\ inner.type = "array"
         /\ Len(outer.items) >= Len(inner.items)
         /\ \A i \in 1..Len(inner.items) :
                containsValue(outer.items[i], inner.items[i])
    ELSE IF inner.type = "void" THEN TRUE
    ELSE CASE outer.type \in {"void", "fn"} -> isEqualValue(outer, inner)
           [] outer.type = "restVector" ->
                IF inner.type = "restVector"
                THEN /\ Len(outer.value) = Len(inner.value)
                     /\ \A i \in 1..Len(outer.value) :
                            containsValue(outer.value[i], inner.value[i])
                ELSE IF inner.type = "array"
                THEN /\ Len(outer.value) - 1 <= Len(inner.items)
                     /\ \A i \in 1..Len(outer.value) :
                            i <= Len(inner.items) =>
                                containsValue(outer.value[i], inner.items[i])
                ELSE FALSE
           [] outer.type = "all" -> TRUE
           [] outer.type = "infUnion" ->
                IF inner.type = "prim" THEN infPredicate(outer, inner)
                ELSE IF inner.type = "union"
                THEN \A i \in 1..Len(inner.items) :
                         containsValue(outer, inner.items[i])
                ELSE IF inner.type = "infUnion"
                THEN \/ outer.original = inner.original
                     \/ \E i \in 1..Len(supersets(inner)) :
                            containsValue(outer, supersets(inner)[i])
                ELSE FALSE
           [] outer.type = "union" ->
                IF Len(outer.items) < Len(itemsOf(inner)) THEN FALSE
                ELSE \E i \in 1..Len(itemsOf(inner)) :
                         \E j \in 1..Len(outer.items) :
                             containsValue(outer.items[j], itemsOf(inner)[i])
           [] outer.type = "fnType" ->
                IF inner.type = "fnType"
                THEN /\ containsValue(ValueArray(outer.params),
                                      ValueArray(inner.params))
                     /\ containsValue(outer.out, inner.out)
                ELSE IF inner.type = "fn"
                THEN /\ containsValue(ValueArray(outer.params),
                                      ValueArray(inner.fnType.params))
                     /\ containsValue(outer.out, inner.fnType.out)
                ELSE containsValue(outer.out, inner)

\* The reduce of uniteType from position i on, a the accumulated type
RECURSIVE uniteReduce(_, _, _)
uniteReduce(acc, items, i) ==
    IF i > Len(items) THEN acc
    ELSE uniteReduce(
           IF containsValue(acc, items[i]) THEN acc
           ELSE IF containsValue(items[i], acc) THEN items[i]
           ELSE [type |-> "union", items |-> itemsOf(acc) \o itemsOf(items[i])],
           items, i + 1)

\* uniteType of part_000
uniteType0(items) ==
    IF Len(items) = 0 THEN TypeAll ELSE uniteReduce(createVoid, items, 1)

\* assignExp(fnType.params, params) for an array of parameter types: the
\* assigned parameter nodes, or the throw
assignExp(h, target, source) ==
    Let(inferTypes(h, source, {}, 1), LAMBDA st :
    IF isErr(st.v) THEN st
    ELSE IF ~containsValue(ValueArray(target), st.v)
         THEN R(st.h, Err("cannot assign", ""))
         ELSE R(st.h, ValueArray(SubSeq(source, 1,
                  IF Len(source) < Len(target) THEN Len(source)
                  ELSE Len(target)))))

\* printForm of the last node of a trace
printForm(h, e) ==
    CASE h.n[e].ast = "symbol" -> h.n[e].name
      [] h.n[e].ast = "value" -> "value"
      [] h.n[e].ast = "list" -> "(...)"
      [] h.n[e].ast = "hashMap" -> "{...}"

\* if of GlobalScope: cond ? then : _else
ifBody(cond, then, else) == IF Truthy(cond) THEN then ELSE else

\* if of the GlobalScope of 07_new-syntax; cond is a constant there, and
\* the other steps of a call of a builtin are those of evalWithTrace below
ifBody07(cond, then, else) ==
    IF cond.type # "prim" THEN then
    ELSE IF Truthy(cond) THEN else ELSE then

\* The bodies of the functions of InitHeap, called with the evaluated (or,
\* for a lazy position, the unevaluated) parameters.  p and q are the
\* host's primitives: each returns its first argument, or ret without one.
fnBody(h, body, ps) ==
    CASE body \in {"p", "q"} ->
            R(h, IF Len(ps) >= 1 THEN ps[1] ELSE ValuePrim(ret))
      [] body = "if" ->
            R(h, IF impl = "07" THEN ifBody07(ps[1], ps[2], ps[3])
                 ELSE ifBody(ps[1], ps[2], ps[3]))
      [] body = "let" -> R(h, ps[2])
      [] body = "def" ->
            LET value == ps[1].id IN
            IF h.n[value].label = "" THEN R(h, Err("no label", ""))
            ELSE R([h EXCEPT
                      !.n[InterpreterVars].binds =
                          [k \in DOMAIN @ \cup {h.n[value].label} |->
                              IF k = h.n[value].label THEN value ELSE @[k]],
                      !.n[value].label = "",
                      !.n[value].parent = InterpreterVars], ps[1])

\* evalWithTrace(exp, trace) of evalExp, with _eval, which memoises the
\* result on a list or hashMap node, and the map over the parameters.
RECURSIVE evalWithTrace(_, _, _)
RECURSIVE evalChild(_, _, _)
RECURSIVE evalParams(_, _, _, _, _)
evalWithTrace(h, exp, trace) ==
    LET x == h.n[exp]
        tr == Append(trace, exp)
    IN
    IF \E i \in 1..Len(trace) : trace[i] = exp
    THEN R(h, Err("Circular reference", printForm(h, trace[Len(trace)])))
    ELSE IF Truthy(x.evaluated) THEN R(h, x.evaluated)
    ELSE CASE x.ast = "value" -> R(h, x.val)
           [] x.ast = "symbol" ->
                Let(resolveSymbol(h, exp), LAMBDA r :
                IF isErr(r.v) THEN r ELSE evalChild(r.h, r.v.id, tr))
           [] x.ast = "list" ->
                Let(evalChild(h, x.items[1], tr), LAMBDA f :
                IF isErr(f.v) THEN f
                ELSE IF f.v.type # "fn"
                THEN R(f.h, Err("First element is not a function", ""))
                ELSE
                Let(assignExp(f.h, f.v.fnType.params, Tail(x.items)), LAMBDA as :
                IF isErr(as.v) THEN as
                ELSE
                Let(evalParams(as.h, as.v.items, f.v.fnType.lazyEval, tr, 1),
                    LAMBDA ps :
                IF isErr(ps.v) THEN ps
                ELSE
                Let(fnBody([ps.h EXCEPT !.n[exp].invoked = @ + 1],
                           f.v.body, ps.v.items), LAMBDA expanded :
                IF expanded.v.type = "exp"
                THEN evalChild(expanded.h, expanded.v.id, tr)
                ELSE expanded))))
           [] x.ast = "hashMap" ->
                Let(evalParams(h, entries(x), <<>>, tr, 1), LAMBDA r :
                IF isErr(r.v) THEN r ELSE R(r.h, ValueHashMap))

\* _eval
evalChild(h, e, trace) ==
    Let(evalWithTrace(h, e, trace), LAMBDA r :
    IF isErr(r.v) THEN r
    ELSE IF h.n[e].ast \in {"list", "hashMap"}
         THEN R([r.h EXCEPT !.n[e].evaluated = r.v], r.v)
         ELSE r)

\* assignedParams.value.map((p, i) => lazyEval[i] ? p : _eval(p))
evalParams(h, ps, lazyEval, trace, i) ==
    IF i > Len(ps) THEN R(h, ValueArray(<<>>))
    ELSE Let(IF i <= Len(lazyEval) /\ lazyEval[i]
             THEN R(h, ExpRef(ps[i]))
             ELSE evalChild(h, ps[i], trace), LAMBDA r :
         IF isErr(r.v) THEN r
         ELSE Let(evalParams(r.h, ps, lazyEval, trace, i + 1), LAMBDA rs :
              IF isErr(rs.v) THEN rs
              ELSE R(rs.h, ValueArray(<<r.v>> \o rs.v.items))))

\* Interpreter.evalExp(exp)
InterpreterEvalExp(h, exp) ==
    evalWithTrace([h EXCEPT !.n[exp].parent = InterpreterScope], exp, <<>>)

(***************************************************************************)
(* Parsed expressions.  A template is the text of an expression; Parse     *)
(* builds its nodes, the root at index id, as the parser's create...       *)
(* functions do (each child's parent is the node that holds it).           *)
(***************************************************************************)
T(k) == [k |-> k, name |-> "", v |-> "", items |-> <<>>, keys |-> <<>>,
         label |-> ""]

TSym(name) == [T("symbol") EXCEPT !.name = name]

TLit(v) == [T("value") EXCEPT !.v = v]

TList(items) == [T("list") EXCEPT !.items = items]

THashMap(keys, items) == [T("hashMap") EXCEPT !.keys = keys, !.items = items]

Labelled(label, t) == [t EXCEPT !.label = label]

RECURSIVE Size(_)
RECURSIVE SizeTo(_, _)
Size(t) == 1 + SizeTo(t.items, Len(t.items))

\* Number of nodes of the first i items
SizeTo(items, i) == IF i = 0 THEN 0 ELSE SizeTo(items, i - 1) + Size(items[i])

RECURSIVE Parse(_, _, _)
RECURSIVE ParseItems(_, _, _, _)
Parse(t, id, parent) ==
    LET child(i) == id + 1 + SizeTo(t.items, i - 1)
        kids == [i \in 1..Len(t.items) |-> child(i)]
        node == CASE t.k = "symbol" -> createSymbol(t.name, parent)
                  [] t.k = "value" -> wrapExp(ValuePrim(t.v), parent)
                  [] t.k = "list" -> createList(kids, parent)
                  [] t.k = "hashMap" ->
                        createSpecialListHashMap(
                            [k \in {t.keys[i] : i \in 1..Len(t.keys)} |->
                                kids[CHOOSE i \in 1..Len(t.keys) : t.keys[i] = k]],
                            parent)
    IN <<[node EXCEPT !.label = t.label]>> \o ParseItems(t.items, 1, id + 1, id)

ParseItems(items, i, id, parent) ==
    IF i > Len(items) THEN <<>>
    ELSE Parse(items[i], id, parent)
            \o ParseItems(items, i + 1, id + Size(items[i]), parent)

Names == {"a", "b"}

Call0 == TList(<<TSym("p")>>)

Call2(n) == TList(<<TSym("p"), TSym(n), TSym(n)>>)

Def(n, t) == TList(<<TSym("def"), Labelled(n, t)>>)

If(c) == TList(<<TSym("if"), TLit(c), TList(<<TSym("p")>>), TList(<<TSym("q")>>)>>)

LetCycle(t) ==
    TList(<<TSym("let"), THashMap(<<"a", "b">>, <<TSym("b"), TSym("a")>>), t>>)

IfTemplates == {If("true"), If("false")}

Templates ==
    {Call0, Call2("a")} \cup {TSym(n) : n \in Names}
    \cup {Def("a", TLit(v)) : v \in {"1", "2"}}
    \cup {Def("b", TSym("a")), Def("a", Call0)}
    \cup {Def("a", Call2("b")), Def("b", Call2("a"))}
    \cup IfTemplates
    \cup {LetCycle(TSym("a")), LetCycle(Call2("a"))}

\* Values the host's primitives return
Rets == {"7", "0", "false", "null", ""}

\* Number of evaluations an interpreter is asked for
MaxOps == 4

NoEval == [op |-> "none", root |-> 0, t |-> T("none"), v |-> Undef]

InitI ==
    /\ fam = "eval"
    /\ a = Undef /\ b = Undef /\ op = "init" /\ out = Undef /\ res = "none"
    /\ impl \in {"part_000", "07"}
    /\ ret \in Rets
    /\ heap = InitHeap
    /\ ops = 0
    /\ ev = NoEval
    /\ origExp = InitOrigExp

\* interpreter.evalExp(parse(text))
EvalOp ==
    /\ fam = "eval"
    /\ ops < MaxOps
    /\ \E t \in IF impl = "07" THEN IfTemplates ELSE Templates :
          LET root == Len(heap.n) + 1
              r == InterpreterEvalExp(
                       [heap EXCEPT !.n = @ \o Parse(t, root, 0)], root)
          IN /\ heap' = r.h
             /\ ev' = [op |-> "eval", root |-> root, t |-> t, v |-> r.v]
    /\ ops' = ops + 1
    /\ UNCHANGED <<fam, a, b, op, out, res, impl, ret, origExp>>

\* Roots of earlier evaluations
Roots(h) == {e \in 12..Len(h.n) : h.n[e].parent = InterpreterScope}

\* interpreter.evalExp(exp) for a node evaluated before
ReEvalOp ==
    /\ fam = "eval"
    /\ impl = "part_000"
    /\ ops < MaxOps
    /\ \E root \in Roots(heap) :
          LET r == InterpreterEvalExp(heap, root) IN
          /\ heap' = r.h
          /\ ev' = [op |-> "reeval", root |-> root, t |-> T("none"), v |-> r.v]
    /\ ops' = ops + 1
    /\ UNCHANGED <<fam, a, b, op, out, res, impl, ret, origExp>>

\* hasAncestor(target, ancestor)
RECURSIVE hasAncestor(_, _, _)
hasAncestor(h, target, ancestor) ==
    IF target = ancestor THEN TRUE
    ELSE IF h.n[target].parent = 0 THEN FALSE
    ELSE hasAncestor(h, h.n[target].parent, ancestor)

\* disconnect(e) of disconnectExp(exp), and its forEach over the children
\* es from position i on
RECURSIVE disconnect(_, _, _)
RECURSIVE disconnectEach(_, _, _, _)
disconnect(h, exp, e) ==
    CASE h.n[e].ast = "value" -> h
      [] h.n[e].ast = "symbol" ->
            IF h.n[e].ref # 0 /\ ~hasAncestor(h, h.n[e].ref, exp)
            THEN [h EXCEPT !.n[h.n[e].ref].dep = @ \ {e}, !.n[e].ref = 0]
            ELSE h
      [] h.n[e].ast = "list" -> disconnectEach(h, exp, h.n[e].items, 1)
      [] h.n[e].ast = "hashMap" -> disconnectEach(h, exp, entries(h.n[e]), 1)

disconnectEach(h, exp, es, i) ==
    IF i > Len(es) THEN h
    ELSE disconnectEach(disconnect(h, exp, es[i]), exp, es, i + 1)

disconnectExp(h, exp) ==
    CASE h.n[exp].ast = "value" -> h
      [] h.n[exp].ast = "symbol" ->
            IF h.n[exp].ref # 0
            THEN [h EXCEPT !.n[h.n[exp].ref].dep = @ \ {exp}]
            ELSE h
      [] OTHER -> disconnect(h, exp, exp)

\* disconnectExp(exp) for a node evaluated before
DisconnectOp ==
    /\ fam = "eval"
    /\ impl = "part_000"
    /\ ops < MaxOps
    /\ \E root \in Roots(heap) :
          /\ heap' = disconnectExp(heap, root)
          /\ ev' = [op |-> "disconnect", root |-> root, t |-> T("none"), v |-> Undef]
    /\ ops' = ops + 1
    /\ UNCHANGED <<fam, a, b, op, out, res, impl, ret, origExp>>

NextI == EvalOp \/ ReEvalOp \/ DisconnectOp

SpecI == InitI /\ [][NextI]_vars

(***************************************************************************)
(* Specification of the value functions of part_000: two values are drawn, *)
(* then isEqualValue, containsValue or uniteType is applied                *)
(***************************************************************************)
P0Prims == {ValuePrim("1"), ValuePrim("-1"), ValuePrim("s"), ValuePrim("true")}

P0Unions ==
    {TypeBooleanUnion,
     [type |-> "union", items |-> <<ValuePrim("1"), ValuePrim("s")>>],
     [type |-> "union", items |-> <<ValuePrim("s"), ValuePrim("1")>>],
     [type |-> "union", items |-> <<ValuePrim("1"), ValuePrim("-1")>>],
     [type |-> "union", items |-> <<ValuePrim("true"), InfUnion("String")>>],
     [type |-> "union",
      items |-> <<ValuePrim("1"), ValuePrim("s"), ValuePrim("true")>>]}

\* The values that containsValue and uniteType are applied to
P0Types ==
    P0Prims \cup P0Unions
    \cup {TypeAll, createVoid, InfUnion("Number"), InfUnion("Nat"),
          InfUnion("String"),
          ValueArray(<<>>), ValueArray(<<ValuePrim("1")>>),
          createRestVector(<<InfUnion("Number")>>),
          createTypeFn(<<TypeAll>>, InfUnion("Number"), <<>>),
          [type |-> "fn", body |-> "p",
           fnType |-> createTypeFn(<<TypeAll>>, TypeAll, <<>>)]}

P0Values ==
    P0Types
    \cup {createRestVector(<<>>), createRestVector(<<ValuePrim("1")>>),
          HashMapOf(<<>>), HashMapOf(<<Entry("0", ValuePrim("1"))>>),
          HashMapOf(<<Entry("k", ValuePrim("1"))>>)}

InitV ==
    /\ fam = "p0"
    /\ a \in P0Values
    /\ b \in P0Values
    /\ op = "init"
    /\ out = Undef
    /\ res = "none"
    /\ impl = "none" /\ ret = "" /\ heap = <<>> /\ ops = 0 /\ ev = Undef
    /\ origExp = InitOrigExp

\* isEqualValue(a, b), isEqualValue(b, a) and isEqualValue(a, a)
IsEqualValueOp ==
    /\ op = "init"
    /\ op' = "isEqualValue"
    /\ out' = [ab |-> isEqualValue(a, b), ba |-> isEqualValue(b, a),
               aa |-> isEqualValue(a, a)]
    /\ UNCHANGED <<fam, a, b, res, ivars, origExp>>

\* containsValue(a, b)
ContainsValueOp ==
    /\ op = "init"
    /\ a \in P0Types /\ b \in P0Types
    /\ op' = "containsValue"
    /\ out' = containsValue(a, b)
    /\ UNCHANGED <<fam, a, b, res, ivars, origExp>>

\* uniteType([a, b])
UniteType0Op ==
    /\ op = "init"
    /\ a \in P0Types /\ b \in P0Types
    /\ op' = "uniteType"
    /\ out' = uniteType0(<<a, b>>)
    /\ UNCHANGED <<fam, a, b, res, ivars, origExp>>

NextV == IsEqualValueOp \/ ContainsValueOp \/ UniteType0Op

SpecV == InitV /\ [][NextV]_vars

(***************************************************************************)
(* Claims about the evaluator                                              *)
(***************************************************************************)
\* A call (p) or (q) of a host primitive without arguments: its value
\* depends on no binding.
HostCall(h, e) ==
    /\ h.n[e].ast = "list"
    /\ Len(h.n[e].items) = 1
    /\ h.n[h.n[e].items[1]].ast = "symbol"
    /\ h.n[h.n[e].items[1]].name \in {"p", "q"}

\* C11: memoization -- however often a call node of a host primitive is
\* evaluated (as the root of successive evaluations, or through several
\* references to it), and whatever the primitive returns, the primitive of
\* that node is invoked at most once.
C11_Memoized ==
    fam = "eval" =>
        \A e \in 1..Len(heap.n) : HostCall(heap, e) => heap.n[e].invoked <= 1


\* Node e references the symbol name: it is that symbol, or a call with
\* that symbol among its items.
Refers(h, e, name) ==
    \/ h.n[e].ast = "symbol" /\ h.n[e].name = name
    \/ /\ h.n[e].ast = "list"
       /\ \E i \in 1..Len(h.n[e].items) :
             /\ h.n[h.n[e].items[i]].ast = "symbol"
             /\ h.n[h.n[e].items[i]].name = name

\* Every cached reference of a symbol is the node the symbol's name is
\* bound to now.
RefsCurrent ==
    \A s \in 1..Len(heap.n) :
        (heap.n[s].ast = "symbol" /\ heap.n[s].ref # 0)
            => heap.n[s].ref = resolveWalk(heap, s, heap.n[s].name)

\* The interpreter's vars bind a to a node referencing b and b to a node
\* referencing a, and no symbol still refers to an earlier binding.
C12_DefCycle ==
    LET vs == heap.n[InterpreterVars].binds IN
    /\ {"a", "b"} \subseteq DOMAIN vs
    /\ Refers(heap, vs["a"], "b")
    /\ Refers(heap, vs["b"], "a")
    /\ RefsCurrent

\* The last evaluation ended with a circular-reference error naming a or b.
C12_CircularError ==
    /\ ev.v.type = "error"
    /\ ev.v.reason = "Circular reference"
    /\ ev.v.name \in {"a", "b"}

\* C12: cycle detection -- with a bound to a node referencing b and b bound
\* to a node referencing a (by def, or by the bindings of a let), evaluating
\* the symbol a or a call that takes a as an argument ends with a
\* circular-reference error naming a or b.
C12_CycleCaught ==
    (/\ fam = "eval"
     /\ ev.op = "eval"
     /\ \/ ev.t \in {LetCycle(TSym("a")), LetCycle(Call2("a"))}
        \/ ev.t \in {TSym("a"), Call2("a")} /\ C12_DefCycle)
    => C12_CircularError


\* The interpreter's vars bind b to the bare symbol a and a to a literal.
C13_Alias ==
    LET vs == heap.n[InterpreterVars].binds IN
    /\ {"a", "b"} \subseteq DOMAIN vs
    /\ heap.n[vs["b"]].ast = "symbol" /\ heap.n[vs["b"]].name = "a"
    /\ heap.n[vs["a"]].ast = "value"

\* C13: cache invalidation on redefinition -- whatever bindings def has
\* replaced, no symbol keeps a cached reference to a node its name is no
\* longer bound to, and evaluating b, bound to the symbol a, yields the
\* literal a is bound to now.
C13_Redefinition ==
    fam = "eval" =>
        /\ RefsCurrent
        /\ (ev.op = "eval" /\ ev.t = TSym("b") /\ C13_Alias)
              => ev.v = heap.n[heap.n[InterpreterVars].binds["a"]].val

(***************************************************************************)
(* C14: the arithmetic scenario.  Evaluating the application of the        *)
(* function definition (=> {x: Number y: Number} (+ x y)) to the literals  *)
(* 3 and 4 yields 7.                                                       *)
(***************************************************************************)
C14_Arithmetic ==
    (fam = "g8" /\ op = "evalExp.arith") =>
        out = withLog(Literal("number", "7"), <<>>)

(***************************************************************************)
(* C15: arity shortfall.  A call of a function with two required           *)
(* parameters and no rest with a single argument does not abort, and the   *)
(* logs returned for the call hold exactly one diagnostic, the one about   *)
(* too few arguments, whatever the declared type of the missing parameter. *)
(***************************************************************************)
C15_ArityShortfall ==
    (fam = "g8" /\ op = "evalExp.short") =>
        (res = "ok" /\ out.logs = <<TooShortAguments>>)

(***************************************************************************)
(* C16: a call-site type mismatch is recoverable.  For a declared          *)
(* parameter type a and an argument b whose type can be compared with a:   *)
(* castExpParam completes; when the type of b is a subtype of a the        *)
(* argument is passed through unchanged with no log; otherwise one log is  *)
(* recorded and the argument is wrapped in a cast-call to a; and the       *)
(* evaluation of the parameter, cast-call or not, completes with a value.  *)
(***************************************************************************)
C16_Comparable == isSubtypeOf(assertValueType(b), a) # "throw"

C16_CastCall == createExpList(<<castTypeFn, wrapValue(a), wrapValue(b)>>)

C16_MismatchRecoverable ==
    /\ (fam = "g8" /\ op = "castExpParam" /\ C16_Comparable) =>
          /\ res = "ok"
          /\ out = IF isSubtypeOf(assertValueType(b), a) = "true"
                   THEN withLog(<<wrapValue(b)>>, <<>>)
                   ELSE withLog(<<C16_CastCall>>, <<CannotBeCasted>>)
    /\ (fam = "g8" /\ op = "evalParam") => res = "ok"

(***************************************************************************)
(* C17: lazy parameters and conditional branching.  After the evaluation   *)
(* of (if c (p) (q)) with c true or false, the primitive of the branch     *)
(* that c selects -- (p) when c is true, (q) when c is false -- has been   *)
(* invoked exactly once and its value is the value of the call, and the    *)
(* primitive of the other branch has not been invoked.                     *)
(***************************************************************************)
C17_IfEvaluated == fam = "eval" /\ ev.op = "eval" /\ ev.t \in IfTemplates

C17_Then == heap.n[ev.root].items[3]

C17_Else == heap.n[ev.root].items[4]

C17_IfBranching ==
    C17_IfEvaluated =>
        /\ ev.v = ValuePrim(ret)
        /\ heap.n[C17_Then].invoked = (IF ev.t = If("true") THEN 1 ELSE 0)
        /\ heap.n[C17_Else].invoked = (IF ev.t = If("true") THEN 0 ELSE 1)

(***************************************************************************)
(* C18: an undefined symbol is fatal.  When the evaluated symbol is bound  *)
(* in no scope above it, the evaluation is aborted with an error and no    *)
(* value is returned.                                                      *)
(***************************************************************************)
C18_Unbound ==
    /\ fam = "scope"
    /\ \E layout \in Layouts :
          \/ op = "evalExp." \o layout \o ".c"
          \/ op = "evalExp." \o layout \o ".a" /\ a = Absent
          \/ op = "evalExp." \o layout \o ".b" /\ b = Absent

C18_UndefinedIsFatal == C18_Unbound => res = "throw"

(***************************************************************************)
(* C19: a circular alias chain is fatal.  When the scope binds a to the    *)
(* bare symbol b and b to the bare symbol a, or one of them to itself, the *)
(* evaluation of a symbol on the cycle ends, and it is aborted with an     *)
(* error instead of returning a value.                                     *)
(***************************************************************************)
C19_OnCycle(name) ==
    \/ a = ExpSymbol("b") /\ b = ExpSymbol("a") /\ name \in {"a", "b"}
    \/ a = ExpSymbol("a") /\ name = "a"
    \/ b = ExpSymbol("b") /\ name = "b"

C19_Circular ==
    /\ fam = "scope"
    /\ \E name \in {"a", "b"} :
          /\ op = "evalExp.flat." \o name
          /\ C19_OnCycle(name)

C19_CircularIsFatal == C19_Circular => res = "throw"

(***************************************************************************)
(* C20: withDefault validates.  For a type-level value a, a.withDefault(b) *)
(* fails when b is itself a type or b is not a subtype of a; when it       *)
(* succeeds, the returned value is equal to a (a.isEqualTo) and its        *)
(* defaultValue is b.                                                      *)
(***************************************************************************)
C20_TypeLevel == a.type = "All" \/ IsType(a)

C20_WithDefaultValidates ==
    (fam \in ValFamilies /\ op = "withDefault" /\ C20_TypeLevel) =>
        /\ (IsType(b) \/ ~IsSubtypeOf(b, a)) => res = "throw"
        /\ res = "ok" => (IsEqualTo(a, out.value) /\ out.defaultValue = b)

(***************************************************************************)
(* C21: union construction shape.  A union returned by uniteType has at    *)
(* least two members and no member that is itself a union; when at most    *)
(* one distinct member remains, the result is that member and not a union. *)
(***************************************************************************)
C21_UnionShape ==
    (fam = "g8" /\ op = "uniteType" /\ res # "throw" /\ isKindOf(out, "union")) =>
        /\ Len(out.items) >= 2
        /\ \A i \in 1..Len(out.items) : ~isKindOf(out.items[i], "union")

(***************************************************************************)
(* C22: vector index out of range is recoverable.  Applying a Vec to an    *)
(* index that is no position of its items (too large, negative or not an   *)
(* integer) does not throw: it returns Never with a warning.               *)
(***************************************************************************)
C22_OutOfRange ==
    /\ op = "Vec.fn"
    /\ (out.index % 2 # 0 \/ out.index < 0 \/ out.index \div 2 >= Len(a.items))

C22_IndexRecoverable ==
    C22_OutOfRange =>
        /\ res = "ok"
        /\ out.ret.value = Never
        /\ out.ret.logs # <<>>

(***************************************************************************)
(* C23: value equality is reflexive and symmetric.  For all values a and   *)
(* b, a is equal to a, and a is equal to b exactly when b is equal to a,   *)
(* for isEqualTo of val.ts and for isEqualValue of part_000.               *)
(***************************************************************************)
C23_EqualityLaws ==
    op \in {"isEqualTo", "isEqualValue"} => (out.aa /\ out.ab = out.ba)

(***************************************************************************)
(* C24: evaluation does not mutate values.  Whatever is evaluated, the     *)
(* value types and singletons that GlobalScope binds keep their origExp,   *)
(* so Number prints as Number before and after.                            *)
(***************************************************************************)
C24_ValuesUnchanged ==
    /\ origExp = InitOrigExp
    /\ printValue(TypeNumber) = "Number"

(***************************************************************************)
(* C25: the union fold leaves no redundant member.  In the result of       *)
(* uniteType no member is contained in another member of the result.       *)
(***************************************************************************)
C25_NoRedundantMember ==
    (fam = "p0" /\ op = "uniteType" /\ out.type = "union") =>
        \A i, j \in 1..Len(out.items) :
            i # j => ~containsValue(out.items[j], out.items[i])

(***************************************************************************)
(* C26: containsValue with a union on both sides.  containsValue(a, b) of  *)
(* a union a and a union b is true only if every item of b is contained   *)
(* in some item of a.                                                      *)
(***************************************************************************)
C26_UnionInUnion ==
    (fam = "p0" /\ op = "containsValue"
        /\ a.type = "union" /\ b.type = "union" /\ out) =>
        \A i \in 1..Len(b.items) :
            \E j \in 1..Len(a.items) : containsValue(a.items[j], b.items[i])

(***************************************************************************)
(* C27: the default value is a memoized inhabitant.  For a type-level      *)
(* value a (All, TypeVar, PrimType, EnumType, FnType, StructType,          *)
(* UnionType, a Vec or Dict that is a type), a.defaultValue is an instance *)
(* of a, and a second read returns the value of the first.                 *)
(***************************************************************************)
\* All(1) is made by withDefault: its default is the one it was given
C27_TypeLevel == a = AllInstance \/ (a.type \notin {"All", "Never"} /\ IsType(a))

C27_DefaultInhabits ==
    (op = "defaultValue" /\ C27_TypeLevel) =>
        /\ IsInstance(a, out.first)
        /\ out.second = out.first

(***************************************************************************)
(* C28: reference/dependent consistency.  For every symbol node s and      *)
(* node r, s is in the dependent set of r exactly when the cached          *)
(* reference of s is r.                                                    *)
(***************************************************************************)
C28_RefDepConsistent ==
    fam = "eval" =>
        \A s, r \in 1..Len(heap.n) :
            (s \in heap.n[r].dep) <=> (heap.n[s].ast = "symbol" /\ heap.n[s].ref = r)

(***************************************************************************)
(* C29: isSubtypeOf of val.ts is transitive.  Whenever a.isSubtypeOf(b)    *)
(* and b.isSubtypeOf(c) are true, a.isSubtypeOf(c) is true.                *)
(***************************************************************************)
C29_Transitive ==
    op = "isSubtypeOf.third" => (out.bc => out.ac)

(***************************************************************************)
(* C30: argument type inference terminates.  assertExpType of an argument  *)
(* node returns a type, also for a scope node that has an output           *)
(* expression.                                                             *)
(***************************************************************************)
C30_ReturnsType ==
    op = "assertExpType" => out.type # Thrown

====
